---------------------------- MODULE Spec2Model ----------------------------
(***************************************************************************)
(* A model of the nsecbunkerd authorization core: the ACL store (KeyUser,  *)
(* SigningCondition, Policy, PolicyRule, Token), the request ledger, the   *)
(* admin RPC plane and the key/config store, each operation translated     *)
(* from its TypeScript source.                                             *)
(***************************************************************************)
EXTENDS Integers, Sequences, FiniteSets, TLC

(***************************************************************************)
(* Bounds of the model.                                                    *)
(***************************************************************************)
\* most SigningCondition rows the store holds
MaxConditions == 3
\* most Policy rows / Token rows the admin creates
MaxPolicies == 1
MaxTokens == 1
\* most distinct grants the history records
MaxGrants == 2
\* most SigningCondition rows the store holds after a token redemption
MaxTokenRows == 3
\* the clock stops here
MaxClock == 7200000
\* most rows of the request ledger
MaxRequests == 2
\* most SigningCondition rows the store holds after a web approval
MaxWebRows == 4
\* most create_account requests the ledger takes
MaxAccounts == 1
\* most SigningCondition rows the store holds after an account creation
MaxAccountRows == 5
\* the ledger is watched up to this time
LedgerHorizon == 120000
\* most answers the admins give to one acl fanout
MaxAnswers == 1
\* the timer of a fanout is watched until this time (ms)
TimeoutHorizon == 14999
\* the direct-admin approval path is followed until this time (ms)
PermitHorizon == 19999
\* self-pings that may be on their way back at once
MaxInflight == 2
\* the clock of the liveness monitor's specification stops here, ms
MonitorHorizon == 199999
\* config writers that have read the file, finished or not
MaxWriters == 3

(***************************************************************************)
(* Values.                                                                 *)
(***************************************************************************)
\* SQL NULL / JS undefined in a text column or argument
NULL == "NULL"
\* a nullable timestamp or integer column that is not set
NoTime == -1
NoId == 0
\* a payload that carries no event kind
NoKind == -1
\* process.exit has not been called
NoExit == -1

KeyNames == {"k1"}
Pubkeys == {"R1", "R2"}
\* event kinds: 0 (falsy in JS) and 1
Kinds == {0, 1}
\* IMethod, src/src/daemon/admin/commands/create_new_policy.ts:133
Methods == {"connect", "sign_event"}
Descriptions == {"alice-app"}

\* IAllowScope: no scope, {kind: 'all'} or {kind: <number>}
NoScope == [tag |-> "none", n |-> 0]
AllScope == [tag |-> "all", n |-> 0]
NumScope(k) == [tag |-> "number", n |-> k]
Scopes == {NoScope, AllScope} \cup {NumScope(k) : k \in Kinds}

\* Number.prototype.toString() for the event kinds (decimal text)
Digit == <<"0", "1", "2", "3", "4", "5", "6", "7", "8", "9">>
KindText(k) ==
    IF k < 10 THEN Digit[k + 1]
    ELSE Digit[(k \div 10) + 1] \o Digit[(k % 10) + 1]

VARIABLES
    keyUsers,     \* KeyUser table: row i has id i
    conditions,   \* SigningCondition table, in id order
    policies,     \* Policy table: row i has id i
    policyRules,  \* PolicyRule table
    tokens,       \* Token table
    now,          \* wall clock, ms
    granted,      \* history: the grants that have completed
    denied,       \* history: (keyName, remotePubkey) pairs deny completed for
    revoked,      \* history: KeyUser ids revoke_user has revoked
    last,         \* the last operation and what it returned
    requests,     \* Request table (the request ledger): row i has id i
    timers,       \* pending setTimeout callbacks of createRecord: [id, due]
    configKeys,   \* the "keys" object of the config file on disk
    unlocked,     \* in-memory table of loaded keys: keyName -> nsec
    keyTable,     \* Key table: the key names that have a row
    nip05Names,   \* the names of the domain's NIP-05 file
    webUsers,     \* User table of the web approval site
    calls,        \* create_account calls suspended in requestAuthorization
    regs,         \* registration handlers waiting for the account's Key row
    baseUrl,      \* config.baseUrl, or NULL
    perms,        \* requestPermission promises: the acl fanouts and their timers
    settled,      \* history: how each requestAuthorization promise settled
    exitCode,     \* the code process.exit was called with, or NoExit
    configWritable, \* whether writeFileSync on the config file succeeds
    monitor,      \* pingOrDie: its death timer, its ping interval, the pings
    applying,     \* applyToken calls in flight, and those that have returned
    writers       \* config writers between their read of the file and their write

\* the process and its environment: exit, config file, monitor, redemptions;
\* and the state outside the ACL, policy and token tables
procVars == <<exitCode, configWritable, monitor, applying, writers>>

hostVars == <<requests, timers, configKeys, unlocked, keyTable, nip05Names,
              webUsers, calls, regs, baseUrl, perms, settled, procVars>>

vars == <<keyUsers, conditions, policies, policyRules, tokens, now,
          granted, denied, revoked, last, hostVars>>

\* what an operation leaves in last: its name, what it returned or threw,
\* and the KeyUser id it was about (lookups and token redemptions)
Did(op, result) == [op |-> op, result |-> result, subject |-> NoId]

(***************************************************************************)
(* ACL store queries.                                                      *)
(***************************************************************************)
\* prisma.keyUser.findUnique({ where: { unique_key_user } }): the id, or NoId
FindKeyUser(keyName, userPubkey) ==
    LET hits == {i \in 1..Len(keyUsers) :
                    /\ keyUsers[i].keyName = keyName
                    /\ keyUsers[i].userPubkey = userPubkey}
    IN IF hits = {} THEN NoId ELSE CHOOSE i \in hits : TRUE

\* requestToSigningConditionQuery selecting by method alone
requestToSigningConditionQuery_MethodOnly(method, kind) ==
    [method |-> method, byKind |-> FALSE, kindIn |-> {}]

\* requestToSigningConditionQuery: { method }, and for sign_event
\* kind: { in: [ payload.kind.toString(), 'all' ] }
requestToSigningConditionQuery(method, kind) ==
    IF method = "sign_event"
    THEN [method |-> method, byKind |-> TRUE,
          kindIn |-> (IF kind = NoKind THEN {} ELSE {KindText(kind)}) \cup {"all"}]
    ELSE [method |-> method, byKind |-> FALSE, kindIn |-> {}]

\* a row satisfies the where clause { keyUserId, ...signingConditionQuery };
\* a NULL kind is in no list
MatchesQuery(row, keyUserId, q) ==
    /\ row.keyUserId = keyUserId
    /\ row.method = q.method
    /\ q.byKind => (row.kind # NULL /\ row.kind \in q.kindIn)

\* where { keyUserId, method: '*', allowed: false }
IsExplicitReject(row, keyUserId) ==
    /\ row.keyUserId = keyUserId
    /\ row.method = "*"
    /\ row.allowed = FALSE

\* prisma.signingCondition.findFirst: the index of the first matching row, or 0
FirstMatch(keyUserId, q) ==
    LET hits == {i \in 1..Len(conditions) : MatchesQuery(conditions[i], keyUserId, q)}
    IN IF hits = {} THEN 0 ELSE CHOOSE i \in hits : \A j \in hits : i <= j

HasExplicitReject(keyUserId) ==
    \E i \in 1..Len(conditions) : IsExplicitReject(conditions[i], keyUserId)

\* checkIfPubkeyAllowed with the explicit reject consulted only after the
\* method's own condition
checkIfPubkeyAllowed_RejectLast(keyName, remotePubkey, method, kind) ==
    LET id == FindKeyUser(keyName, remotePubkey)
        q == requestToSigningConditionQuery(method, kind)
    IN IF id = NoId THEN "undefined"
       ELSE LET i == FirstMatch(id, q)
            IN IF i = 0
               THEN (IF HasExplicitReject(id) THEN "false" ELSE "undefined")
               ELSE IF conditions[i].allowed /\ keyUsers[id].revokedAt # NoTime
                    THEN "false"
               ELSE IF conditions[i].allowed THEN "true" ELSE "false"

\* checkIfPubkeyAllowed without the revocation check
checkIfPubkeyAllowed_NoRevocation(keyName, remotePubkey, method, kind) ==
    LET id == FindKeyUser(keyName, remotePubkey)
        q == requestToSigningConditionQuery(method, kind)
    IN IF id = NoId THEN "undefined"
       ELSE IF HasExplicitReject(id) THEN "false"
       ELSE LET i == FirstMatch(id, q)
            IN IF i = 0 THEN "undefined"
               ELSE IF conditions[i].allowed THEN "true" ELSE "false"

\* checkIfPubkeyAllowed: "true", "false" or "undefined"
checkIfPubkeyAllowed(keyName, remotePubkey, method, kind) ==
    LET id == FindKeyUser(keyName, remotePubkey)
        q == requestToSigningConditionQuery(method, kind)
    IN IF id = NoId THEN "undefined"
       ELSE IF HasExplicitReject(id) THEN "false"
       ELSE LET i == FirstMatch(id, q)
            IN IF i = 0 THEN "undefined"
               ELSE IF conditions[i].allowed /\ keyUsers[id].revokedAt # NoTime
                    THEN "false"
               ELSE IF conditions[i].allowed THEN "true" ELSE "false"

(***************************************************************************)
(* ACL store writes.                                                       *)
(***************************************************************************)
\* prisma.keyUser.upsert({ where, update: {}, create }): the table afterwards
UpsertKeyUser(keyName, userPubkey, description) ==
    IF FindKeyUser(keyName, userPubkey) # NoId THEN keyUsers
    ELSE Append(keyUsers, [keyName |-> keyName, userPubkey |-> userPubkey,
                           description |-> description, revokedAt |-> NoTime])

UpsertedId(keyName, userPubkey) ==
    IF FindKeyUser(keyName, userPubkey) # NoId
    THEN FindKeyUser(keyName, userPubkey)
    ELSE Len(keyUsers) + 1

\* allowScopeToSigningConditionQuery that drops the scope
allowScopeToSigningConditionQuery_NoKind(method, scope) ==
    [method |-> method, kind |-> NULL]

\* allowScopeToSigningConditionQuery: kind is the scope's kind as text when
\* the scope has a truthy kind ('all' or a number other than 0)
allowScopeToSigningConditionQuery(method, scope) ==
    [method |-> method,
     kind |-> IF scope.tag = "all" THEN "all"
              ELSE IF scope.tag = "number" /\ scope.n # 0 THEN KindText(scope.n)
              ELSE NULL]

\* The data of the create in allowAllRequestsFromKey:
\*   { allowed: true, keyUserId, ...signingConditionQuery, ...allowScope }
\* The last spread puts the scope's own kind over the text one: 'all' stays
\* the text 'all', a number stays a number.
GrantKindIsNumber(scope) == scope.tag = "number"

GrantRow(keyUserId, method, scope) ==
    [keyUserId |-> keyUserId,
     method |-> allowScopeToSigningConditionQuery(method, scope).method,
     kind |-> allowScopeToSigningConditionQuery(method, scope).kind,
     allowed |-> TRUE]

\* the rows a run of allowAllRequestsFromKey calls for one KeyUser adds, in
\* order: a call whose scope is a number adds none
GrantRows(keyUserId, grants) ==
    LET stored == SelectSeq(grants, LAMBDA g : ~GrantKindIsNumber(g.scope))
    IN [i \in 1..Len(stored) |->
           GrantRow(keyUserId, stored[i].method, stored[i].scope)]

\* allowAllRequestsFromKey(remotePubkey, keyName, method, param, description,
\* allowScope).  SigningCondition.kind is a text column (it is compared with
\* kind.toString() and 'all'); the client refuses a number for it, the create
\* throws, and the catch logs and returns: the KeyUser stays, no row is added.
Grant(remotePubkey, keyName, method, description, scope) ==
    /\ Len(conditions) < MaxConditions
    /\ keyUsers' = UpsertKeyUser(keyName, remotePubkey, description)
    /\ conditions' =
          IF GrantKindIsNumber(scope) THEN conditions
          ELSE Append(conditions,
                      GrantRow(UpsertedId(keyName, remotePubkey), method, scope))
    /\ granted' = granted \cup {[keyName |-> keyName, remotePubkey |-> remotePubkey,
                                 method |-> method, scope |-> scope]}
    /\ Cardinality(granted') <= MaxGrants
    /\ last' = Did("grant", "ok")
    /\ UNCHANGED <<policies, policyRules, tokens, now, denied, revoked>>
    /\ UNCHANGED hostVars

\* rejectAllRequestsFromKey(remotePubkey, keyName): the create names neither
\* method nor kind, so both columns are NULL
Deny(remotePubkey, keyName) ==
    /\ Len(conditions) < MaxConditions
    /\ keyUsers' = UpsertKeyUser(keyName, remotePubkey, NULL)
    /\ conditions' = Append(conditions,
                            [keyUserId |-> UpsertedId(keyName, remotePubkey),
                             method |-> NULL, kind |-> NULL, allowed |-> FALSE])
    /\ denied' = denied \cup {<<keyName, remotePubkey>>}
    /\ last' = Did("deny", "ok")
    /\ UNCHANGED <<policies, policyRules, tokens, now, granted, revoked>>
    /\ UNCHANGED hostVars

\* a permit check: checkIfPubkeyAllowed on the store as it is
Lookup(keyName, remotePubkey, method, kind) ==
    /\ last' = [op |-> "lookup",
                result |-> checkIfPubkeyAllowed(keyName, remotePubkey, method, kind),
                subject |-> FindKeyUser(keyName, remotePubkey)]
    /\ UNCHANGED <<keyUsers, conditions, policies, policyRules, tokens, now,
                   granted, denied, revoked>>
    /\ UNCHANGED hostVars

\* revokeUser(admin, req): params [ keyUserId ]; keyUserId = 0 stands for a
\* missing or non-numeric parameter.  prisma.keyUser.update throws when no row
\* has the id.
RevokeUser(keyUserId) ==
    /\ IF keyUserId = NoId
       THEN /\ last' = Did("revoke_user", "Invalid params")
            /\ UNCHANGED <<keyUsers, revoked>>
       ELSE IF keyUserId > Len(keyUsers)
       THEN /\ last' = Did("revoke_user", "Record not found")
            /\ UNCHANGED <<keyUsers, revoked>>
       ELSE /\ keyUsers' = [keyUsers EXCEPT ![keyUserId].revokedAt = now]
            /\ revoked' = revoked \cup {keyUserId}
            /\ last' = Did("revoke_user", "ok")
    /\ UNCHANGED <<conditions, policies, policyRules, tokens, now, granted, denied>>
    /\ UNCHANGED hostVars

(***************************************************************************)
(* Policies and tokens.                                                    *)
(***************************************************************************)
\* a rule of a create_new_policy request: method, and kind a number, the
\* empty text, or absent
RuleNum(m, k) == [method |-> m, kindTag |-> "number", n |-> k]
RuleEmpty(m) == [method |-> m, kindTag |-> "empty", n |-> 0]
RuleAbsent(m) == [method |-> m, kindTag |-> "absent", n |-> 0]
PolicyOneRule == <<RuleNum("sign_event", 1)>>
PolicyTwoRules == <<RuleNum("sign_event", 1), RuleEmpty("encrypt")>>
PolicyRuleWithoutKind == <<RuleNum("sign_event", 1), RuleAbsent("encrypt")>>

\* rule.kind.toString()
RuleKindText(rule) == IF rule.kindTag = "number" THEN KindText(rule.n) ELSE ""

\* the rules the loop of createNewPolicy stores before rule.kind.toString()
\* throws on a rule without kind
RECURSIVE StoredRules(_, _)
StoredRules(policyId, rules) ==
    IF rules = <<>> \/ Head(rules).kindTag = "absent" THEN <<>>
    ELSE <<[policyId |-> policyId, kind |-> RuleKindText(Head(rules)),
            method |-> Head(rules).method, currentUsageCount |-> 0]>>
         \o StoredRules(policyId, Tail(rules))

\* createNewPolicy(admin, req): the Policy row, then one PolicyRule per rule
CreateNewPolicy(rules) ==
    /\ Len(policies) < MaxPolicies
    /\ policies' = Append(policies, [name |-> "policy", expiresAt |-> NoTime])
    /\ policyRules' = policyRules \o StoredRules(Len(policies) + 1, rules)
    /\ last' = Did("create_new_policy",
                    IF Len(StoredRules(Len(policies) + 1, rules)) = Len(rules)
                    THEN "ok" ELSE "TypeError")
    /\ UNCHANGED <<keyUsers, conditions, tokens, now, granted, denied, revoked>>
    /\ UNCHANGED hostVars

\* the random 64-digit token of createNewToken: the i-th token created
TokenText(i) == IF i = 1 THEN "tok1" ELSE IF i = 2 THEN "tok2" ELSE "tok3"
HourMs == 3600000

\* createNewToken(admin, req): params [ keyName, clientName, policyId,
\* durationInHours? ]
CreateNewToken(keyName, clientName, policyId, durationInHours) ==
    /\ Len(tokens) < MaxTokens
    /\ IF clientName = NULL \/ policyId = NoId
       THEN /\ last' = Did("create_new_token", "Invalid params")
            /\ UNCHANGED tokens
       ELSE IF policyId > Len(policies)
       THEN /\ last' = Did("create_new_token", "Policy not found")
            /\ UNCHANGED tokens
       ELSE /\ tokens' = Append(tokens,
                  [token |-> TokenText(Len(tokens) + 1), keyName |-> keyName,
                   clientName |-> clientName, policyId |-> policyId,
                   expiresAt |-> IF durationInHours = 0 THEN NoTime
                                 ELSE now + durationInHours * HourMs,
                   redeemedAt |-> NoTime, keyUserId |-> NoId])
            /\ last' = Did("create_new_token", "ok")
    /\ UNCHANGED <<keyUsers, conditions, policies, policyRules, now,
                   granted, denied, revoked>>
    /\ UNCHANGED hostVars

\* prisma.token.findUnique({ where: { token } }): the id, or NoId
FindToken(token) ==
    LET hits == {i \in 1..Len(tokens) : tokens[i].token = token}
    IN IF hits = {} THEN NoId ELSE CHOOSE i \in hits : TRUE

\* include: { policy: { include: { rules: true } } }
RulesOf(policyId) == SelectSeq(policyRules, LAMBDA r : r.policyId = policyId)

\* validateToken without the redeemedAt check
validateToken_NoRedeemedCheck(token) ==
    IF token = "" THEN "Invalid token"
    ELSE IF FindToken(token) = NoId THEN "Token not found"
    ELSE IF tokens[FindToken(token)].policyId = NoId
            \/ tokens[FindToken(token)].policyId > Len(policies)
         THEN "Policy not found"
    ELSE IF /\ tokens[FindToken(token)].expiresAt # NoTime
            /\ tokens[FindToken(token)].expiresAt < now
         THEN "Token expired"
    ELSE "ok"

\* validateToken without the expiresAt check
validateToken_NoExpiryCheck(token) ==
    IF token = "" THEN "Invalid token"
    ELSE IF FindToken(token) = NoId THEN "Token not found"
    ELSE IF tokens[FindToken(token)].redeemedAt # NoTime THEN "Token already redeemed"
    ELSE IF tokens[FindToken(token)].policyId = NoId
            \/ tokens[FindToken(token)].policyId > Len(policies)
         THEN "Policy not found"
    ELSE "ok"

\* Backend.validateToken: "ok" or the message of the error it throws
validateToken(token) ==
    IF token = "" THEN "Invalid token"
    ELSE IF FindToken(token) = NoId THEN "Token not found"
    ELSE IF tokens[FindToken(token)].redeemedAt # NoTime THEN "Token already redeemed"
    ELSE IF tokens[FindToken(token)].policyId = NoId
            \/ tokens[FindToken(token)].policyId > Len(policies)
         THEN "Policy not found"
    ELSE IF /\ tokens[FindToken(token)].expiresAt # NoTime
            /\ tokens[FindToken(token)].expiresAt < now
         THEN "Token expired"
    ELSE "ok"

\* the signing condition data of a policy rule with the rule's kind left out
TokenRuleRow_NoKind(keyUserId, rule) ==
    [keyUserId |-> keyUserId, method |-> rule.method, kind |-> NULL,
     allowed |-> TRUE]

\* the signing condition data applyToken builds for one policy rule:
\* kind is set only when rule.kind is truthy (a non-empty text)
TokenRuleRow(keyUserId, rule) ==
    [keyUserId |-> keyUserId, method |-> rule.method,
     kind |-> IF rule.kind # NULL /\ rule.kind # "" THEN rule.kind ELSE NULL,
     allowed |-> TRUE]

\* Backend.applyToken(userPubkey, token).  Its store writes, in order: 1 the
\* KeyUser upsert, 2 the connect row, 3..n+2 one row per policy rule, n+3 the
\* token update.  failAt = 0: every write succeeds; failAt = j: write j throws
\* a storage error, which ends the call with writes 1..j-1 done.
ApplyToken(userPubkey, token, failAt) ==
    IF validateToken(token) # "ok"
    THEN /\ last' = Did("applyToken", validateToken(token))
         /\ UNCHANGED <<keyUsers, conditions, policies, policyRules, tokens, now,
                        granted, denied, revoked>>
         /\ UNCHANGED hostVars
    ELSE LET t == FindToken(token)
             keyName == tokens[t].keyName
             rules == RulesOf(tokens[t].policyId)
             n == Len(rules)
             lands(j) == failAt = 0 \/ j < failAt
             id == UpsertedId(keyName, userPubkey)
             ruleRows == [i \in 1..n |-> TokenRuleRow(id, rules[i])]
             landed == {i \in 1..n : lands(i + 2)}
         IN /\ failAt <= n + 3
            /\ Len(conditions) + 1 + n <= MaxTokenRows
            /\ keyUsers' = IF lands(1)
                           THEN UpsertKeyUser(keyName, userPubkey, tokens[t].clientName)
                           ELSE keyUsers
            /\ conditions' =
                  conditions
                  \o (IF lands(2)
                      THEN <<[keyUserId |-> id, method |-> "connect",
                              kind |-> NULL, allowed |-> TRUE]>>
                      ELSE <<>>)
                  \o SubSeq(ruleRows, 1, Cardinality(landed))
            /\ tokens' = IF lands(n + 3)
                         THEN [tokens EXCEPT ![t].redeemedAt = now,
                                             ![t].keyUserId = id]
                         ELSE tokens
            /\ last' = [op |-> "applyToken",
                        result |-> IF failAt = 0 THEN "ok" ELSE "storage error",
                        subject |-> IF lands(1) THEN id ELSE NoId]
            /\ UNCHANGED <<policies, policyRules, now, granted, denied, revoked>>
            /\ UNCHANGED hostVars

\* applyToken as the event loop runs it: every await of a store operation
\* is a point where another call may run.  A call in flight holds the token
\* record validateToken returned (t, its rules), the KeyUser id of its
\* upsert and the number pc of its next write (as in ApplyToken); past its
\* last write it has returned.
InFlight(userPubkey, token) ==
    [pubkey |-> userPubkey, token |-> token, t |-> FindToken(token),
     rules |-> RulesOf(tokens[FindToken(token)].policyId), pc |-> 1, id |-> NoId]

Returned(a) == a.pc = Len(a.rules) + 4

\* const tokenRecord = await this.validateToken(token)
ApplyTokenBegin(userPubkey, token) ==
    /\ \A a \in applying : a.pubkey # userPubkey \/ a.token # token
    /\ IF validateToken(token) # "ok"
       THEN /\ last' = Did("applyToken", validateToken(token))
            /\ UNCHANGED applying
       ELSE /\ applying' = applying \cup {InFlight(userPubkey, token)}
            /\ last' = Did("validateToken", "ok")
    /\ UNCHANGED <<keyUsers, conditions, policies, policyRules, tokens, now,
                   granted, denied, revoked>>
    /\ UNCHANGED <<requests, timers, configKeys, unlocked, keyTable, nip05Names,
                   webUsers, calls, regs, baseUrl, perms, settled, exitCode,
                   configWritable, monitor, writers>>

\* the next awaited write of a call in flight: the KeyUser upsert, the
\* connect row, one row per rule of the token record, the token update
ApplyTokenStep(a) ==
    /\ a \in applying
    /\ ~Returned(a)
    /\ LET n == Len(a.rules)
           keyName == tokens[a.t].keyName
           id == IF a.pc = 1 THEN UpsertedId(keyName, a.pubkey) ELSE a.id
       IN /\ keyUsers' = IF a.pc = 1
                         THEN UpsertKeyUser(keyName, a.pubkey, tokens[a.t].clientName)
                         ELSE keyUsers
          /\ conditions' =
                IF a.pc = 2
                THEN Append(conditions, [keyUserId |-> id, method |-> "connect",
                                         kind |-> NULL, allowed |-> TRUE])
                ELSE IF a.pc \in 3..(n + 2)
                THEN Append(conditions, TokenRuleRow(id, a.rules[a.pc - 2]))
                ELSE conditions
          /\ tokens' = IF a.pc = n + 3
                       THEN [tokens EXCEPT ![a.t].redeemedAt = now,
                                           ![a.t].keyUserId = id]
                       ELSE tokens
          /\ applying' = (applying \ {a}) \cup {[a EXCEPT !.pc = @ + 1, !.id = id]}
          /\ last' = IF a.pc = n + 3
                     THEN [op |-> "applyToken", result |-> "ok", subject |-> id]
                     ELSE last
    /\ UNCHANGED <<policies, policyRules, now, granted, denied, revoked>>
    /\ UNCHANGED <<requests, timers, configKeys, unlocked, keyTable, nip05Names,
                   webUsers, calls, regs, baseUrl, perms, settled, exitCode,
                   configWritable, monitor, writers>>

\* time passes
Tick(d) ==
    /\ now + d <= MaxClock
    /\ \A t \in timers : now + d <= t.due
    /\ \A p \in perms : ~p.fired => now + d <= p.due
    /\ monitor.deathTimer # NoTime => now + d <= monitor.deathTimer
    /\ monitor.pingDue # NoTime => now + d <= monitor.pingDue
    /\ now' = now + d
    /\ UNCHANGED <<keyUsers, conditions, policies, policyRules, tokens,
                   granted, denied, revoked, last>>
    /\ UNCHANGED hostVars

(***************************************************************************)
(* The request ledger and the approval flows.                              *)
(***************************************************************************)
\* setTimeout(..., 60000) in createRecord
ExpiryMs == 60000
\* the approval site of config.baseUrl
BunkerUrl == "https://bunker.example"

\* createRecord(keyName, requestId, remotePubkey, method, param): the Request
\* row (allowed is not set), and the timer it arms.  createdAt is the time
\* of the insert.
RequestRow(keyName, remotePubkey, method, params) ==
    [keyName |-> keyName, remotePubkey |-> remotePubkey, method |-> method,
     params |-> params, allowed |-> NULL, createdAt |-> now]

ExpiryTimerOf(id) == [id |-> id, due |-> now + ExpiryMs]

\* setTimeout(() => { resolve(undefined); }, 10000) in requestPermission
PermissionMs == 10000
\* resObj[0] of an admin's answer to an acl request; "once" stands for every
\* value other than 'always' and 'never'
AdminAnswers == {"always", "never", "once"}

\* requestAuthorization(admin, keyName, remotePubkey, requestId, method,
\* param) up to the point where its promise is pending: the record, then the
\* web flow (auth_url sent, polling starts) when config.baseUrl is set, the
\* admin flow (requestPermission) when it is not.  then: who awaits it.
SuspendedCall(id, remotePubkey, then) ==
    [id |-> id, pubkey |-> remotePubkey,
     flow |-> IF baseUrl # NULL THEN "url" ELSE "admin", then |-> then]

\* requestPermission whose timer fires at once
PermissionOf_NoDelay(id, keyName, remotePubkey, method, kind) ==
    [id |-> id, keyName |-> keyName, remotePubkey |-> remotePubkey,
     method |-> method, kind |-> kind, sentAt |-> now, due |-> now,
     state |-> "pending", settledAt |-> NoTime, fired |-> FALSE, answers |-> {}]

\* requestPermission(keyName, remotePubkey, method, param): the promise it
\* returns, with the 10 s timer armed and the acl request sent to every admin.
\* state: "pending", "true" (resolve(true)) or "undefined" (resolve(undefined));
\* answers: the admins' answers received so far.
PermissionOf(id, keyName, remotePubkey, method, kind) ==
    [id |-> id, keyName |-> keyName, remotePubkey |-> remotePubkey,
     method |-> method, kind |-> kind, sentAt |-> now, due |-> now + PermissionMs,
     state |-> "pending", settledAt |-> NoTime, fired |-> FALSE, answers |-> {}]

\* the fanouts after requestAuthorization has chosen its flow
OpenedPerms(id, keyName, remotePubkey, method, kind) ==
    IF baseUrl # NULL THEN perms
    ELSE perms \cup {PermissionOf(id, keyName, remotePubkey, method, kind)}

\* the promise of requestAuthorization settling: resolve(value) or
\* reject(value), once.  answers, observed: what came before it.
Settlement(c, result, value, answers, observed) ==
    [id |-> c.id, flow |-> c.flow, result |-> result, value |-> value,
     at |-> now, answers |-> answers, observed |-> observed]

RequestAuthorization(keyName, remotePubkey, method, kind) ==
    /\ Len(requests) < MaxRequests
    /\ requests' = Append(requests, RequestRow(keyName, remotePubkey, method, <<>>))
    /\ timers' = timers \cup {ExpiryTimerOf(Len(requests) + 1)}
    /\ calls' = calls \cup {SuspendedCall(Len(requests) + 1, remotePubkey, "caller")}
    /\ perms' = OpenedPerms(Len(requests) + 1, keyName, remotePubkey, method, kind)
    /\ last' = Did("requestAuthorization",
                    IF baseUrl # NULL THEN "auth_url" ELSE "requestPermission")
    /\ UNCHANGED <<keyUsers, conditions, policies, policyRules, tokens, now,
                   granted, denied, revoked>>
    /\ UNCHANGED <<configKeys, unlocked, keyTable, nip05Names, webUsers, regs,
                   baseUrl, procVars, settled>>

\* the callback createRecord arms:
\*   () => { prisma.request.delete({ where: { id: request.id }}); }
\* The delete is built and dropped: nothing awaits it or calls then() on it,
\* and the client sends a query only when that happens.  The row stays.
ExpiryTimer(t) ==
    /\ t \in timers
    /\ t.due <= now
    /\ timers' = timers \ {t}
    /\ UNCHANGED <<keyUsers, conditions, policies, policyRules, tokens, now,
                   granted, denied, revoked, last>>
    /\ UNCHANGED <<requests, configKeys, unlocked, keyTable, nip05Names,
                   webUsers, calls, regs, baseUrl, procVars,
                   perms, settled>>

\* processRequestWebHandler(request, reply) for the row id; valid: whether
\* validateRequest accepts the approver's credentials
ProcessRequestWebHandler(id, valid) ==
    /\ id \in 1..Len(requests)
    /\ IF requests[id].keyName = NULL
       THEN /\ last' = Did("processRequestWebHandler", "undefined")
            /\ UNCHANGED <<requests, keyUsers, conditions>>
       ELSE IF ~valid
       THEN /\ last' = Did("processRequestWebHandler", "401")
            /\ UNCHANGED <<requests, keyUsers, conditions>>
       ELSE LET r == requests[id]
                grants == <<[method |-> r.method, scope |-> AllScope]>>
                          \o (IF r.method = "connect"
                              THEN <<[method |-> "sign_event", scope |-> AllScope]>>
                              ELSE <<>>)
            IN /\ Len(conditions) + Len(grants) <= MaxWebRows
               /\ requests' = [requests EXCEPT ![id].allowed = "true"]
               /\ keyUsers' = UpsertKeyUser(r.keyName, r.remotePubkey, NULL)
               /\ conditions' = conditions
                     \o GrantRows(UpsertedId(r.keyName, r.remotePubkey), grants)
               /\ last' = Did("processRequestWebHandler", "ok")
    /\ UNCHANGED <<policies, policyRules, tokens, now, granted, denied, revoked>>
    /\ UNCHANGED <<timers, configKeys, unlocked, keyTable, nip05Names, webUsers,
                   calls, regs, baseUrl, procVars,
                   perms, settled>>

(***************************************************************************)
(* The key store.                                                          *)
(***************************************************************************)
\* private keys (hex): one an admin imports, one a generator yields
PrivateKeys == {"a", "g"}
GeneratedKeys == {"g"}
\* crypto.randomBytes(16) as hex
IVs == {"iv1"}

\* nip19.nsecEncode(privateKey)
NsecEncode(hex) == "nsec1" \o hex
\* nip19.decode(nsec).data, or "invalid" where decode throws
NsecDecode(text) ==
    IF \E h \in PrivateKeys : NsecEncode(h) = text
    THEN CHOOSE h \in PrivateKeys : NsecEncode(h) = text
    ELSE "invalid"

\* crypto.createHash('sha256').update(passphrase).digest()
Sha256(passphrase) == <<"sha256", passphrase>>

\* encryptNsec(nsec, passphrase) with the IV it drew: data is the
\* AES-256-CBC ciphertext of nsec under (Sha256(passphrase), iv), as a term
encryptNsec(nsec, passphrase, iv) ==
    [iv |-> iv, data |-> <<Sha256(passphrase), iv, nsec>>]

\* the passphrases of the model
Passphrases == {"pw", "pw2", "pw3", "hunter2"}
\* decipher.final() throwing (bad decrypt), and decrypted.toString() of bytes
\* that are not the plaintext
BadDecrypt == "bad decrypt"
OtherText == "other text"

\* AES-256-CBC has no integrity check: decipher.final() throws only when the
\* last block it decrypted does not end in PKCS#7 padding.  Under another
\* key that block is 16 unrelated bytes, which end in valid padding for
\* about one key in 256.  PaddingSurvives holds the pairs (key tried, key of
\* the ciphertext) of the model for which they do.
PaddingSurvives == {<<Sha256("pw3"), Sha256("pw")>>}

\* decryptNsec(iv, data, passphrase): the plaintext under the right key and
\* IV; under the right key and another IV the text with its first block
\* garbled; under another key decipher.final() throws, or the padding
\* survives and the garbled bytes come back as text
decryptNsec(iv, data, passphrase) ==
    IF data[1] = Sha256(passphrase)
    THEN IF data[2] = iv THEN data[3] ELSE OtherText
    ELSE IF <<Sha256(passphrase), data[1]>> \in PaddingSurvives THEN OtherText
    ELSE BadDecrypt

\* currentConfig.keys[name] = entry
PutKey(table, name, entry) ==
    [k \in DOMAIN table \cup {name} |-> IF k = name THEN entry ELSE table[k]]

\* the entry saveEncrypted writes: { iv, data }
EncryptedEntry(nsec, passphrase, iv) ==
    [iv |-> encryptNsec(nsec, passphrase, iv).iv,
     data |-> encryptNsec(nsec, passphrase, iv).data,
     key |-> NULL]
\* the entry createAccountReal writes: { key: key.privateKey }
RawEntry(privateKey) == [iv |-> NULL, data |-> <<>>, key |-> privateKey]

\* saveCurrentConfig(config, currentConfig): NoExit where writeFileSync wrote
\* the file, and where it threw the code of the process.exit(1) in the catch
saveCurrentConfig == IF configWritable THEN NoExit ELSE 1

\* saveEncrypted(config, nsec, passphrase, name): the keys object afterwards
saveEncrypted(nsec, passphrase, name, iv) ==
    PutKey(configKeys, name, EncryptedEntry(nsec, passphrase, iv))

\* admin.loadNsec(keyName, nsec): the callback the daemon installs; it puts
\* the key in the in-memory table
loadNsec(keyName, nsec) == PutKey(unlocked, keyName, nsec)

\* the CLI command add --name: addNsec(opts) with the answers typed
AddNsec(name, passphrase, nsec, iv) ==
    /\ IF NsecDecode(nsec) = "invalid" \/ ~configWritable
       THEN /\ last' = Did("add", "exit 1")
            /\ UNCHANGED configKeys
       ELSE /\ configKeys' = saveEncrypted(nsec, passphrase, name, iv)
            /\ last' = Did("add", "ok")
    /\ UNCHANGED <<keyUsers, conditions, policies, policyRules, tokens, now,
                   granted, denied, revoked>>
    /\ UNCHANGED <<requests, timers, unlocked, keyTable, nip05Names, webUsers,
                   calls, regs, baseUrl, procVars,
                   perms, settled>>

\* createNewKey(admin, req): params [ keyName, passphrase, nsec? ]
CreateNewKey(keyName, passphrase, nsec, generated, iv) ==
    /\ IF keyName = NULL \/ passphrase = NULL
       THEN /\ last' = Did("create_new_key", "Invalid params")
            /\ UNCHANGED <<configKeys, unlocked, exitCode>>
       ELSE IF nsec # NULL /\ NsecDecode(nsec) = "invalid"
       THEN /\ last' = Did("create_new_key", "invalid nsec")
            /\ UNCHANGED <<configKeys, unlocked, exitCode>>
       ELSE IF saveCurrentConfig # NoExit
       THEN /\ exitCode' = saveCurrentConfig
            /\ last' = Did("process.exit", "Error writing config file")
            /\ UNCHANGED <<configKeys, unlocked>>
       ELSE LET key == IF nsec # NULL THEN NsecDecode(nsec) ELSE generated
            IN /\ configKeys' = saveEncrypted(NsecEncode(key), passphrase, keyName, iv)
               /\ unlocked' = loadNsec(keyName, NsecEncode(key))
               /\ last' = Did("create_new_key", "ok")
               /\ UNCHANGED exitCode
    /\ UNCHANGED <<keyUsers, conditions, policies, policyRules, tokens, now,
                   granted, denied, revoked>>
    /\ UNCHANGED <<requests, timers, keyTable, nip05Names, webUsers, calls,
                   regs, baseUrl, configWritable, monitor, applying, writers,
                   perms, settled>>

\* admin.unlockKey(keyName, passphrase), the callback the daemon installs:
\* the nsec of the named entry, decrypted where the entry is encrypted, or ""
\* where there is no such entry or the result is no private key
unlockedBy(keyName, passphrase) ==
    IF keyName \notin DOMAIN configKeys THEN ""
    ELSE LET e == configKeys[keyName]
             nsec == IF e.key # NULL THEN NsecEncode(e.key)
                     ELSE decryptNsec(e.iv, e.data, passphrase)
         IN IF NsecDecode(nsec) = "invalid" THEN "" ELSE nsec

\* unlockKey(admin, req): params [ keyName, passphrase ]
UnlockKey(keyName, passphrase) ==
    /\ IF keyName = NULL \/ passphrase = NULL
       THEN /\ last' = Did("unlock_key", "Invalid params")
            /\ UNCHANGED unlocked
       ELSE IF unlockedBy(keyName, passphrase) = ""
       THEN /\ last' = Did("unlock_key", "success: false")
            /\ UNCHANGED unlocked
       ELSE /\ unlocked' = loadNsec(keyName, unlockedBy(keyName, passphrase))
            /\ last' = Did("unlock_key", "success: true")
    /\ UNCHANGED <<keyUsers, conditions, policies, policyRules, tokens, now,
                   granted, denied, revoked>>
    /\ UNCHANGED <<requests, timers, configKeys, keyTable, nip05Names, webUsers,
                   calls, regs, baseUrl, procVars,
                   perms, settled>>

\* renameKeyUser(admin, req): params [ keyUserId, description ]
RenameKeyUser(keyUserId, description) ==
    /\ IF keyUserId = NoId \/ description = NULL
       THEN /\ last' = Did("rename_key_user", "Invalid params")
            /\ UNCHANGED keyUsers
       ELSE IF keyUserId > Len(keyUsers)
       THEN /\ last' = Did("rename_key_user", "Record not found")
            /\ UNCHANGED keyUsers
       ELSE /\ keyUsers' = [keyUsers EXCEPT ![keyUserId].description = description]
            /\ last' = Did("rename_key_user", "ok")
    /\ UNCHANGED <<conditions, policies, policyRules, tokens, now, granted,
                   denied, revoked>>
    /\ UNCHANGED hostVars

(***************************************************************************)
(* create_account.                                                         *)
(***************************************************************************)
\* config.domains
ConfigDomains == {"example.com"}
RESERVED_USERNAMES == {"admin", "root", "_", "administrator", "__"}
\* Math.random().toString(36).substring(2, 15)
RandomUsername == "k3j9x0q"
Nip05(username, domain) == username \o "@" \o domain

\* validateDomain: the domain, or "" where it throws
validateDomain(domain) ==
    IF ConfigDomains = {} THEN ""
    ELSE IF domain = NULL \/ domain = "" THEN CHOOSE d \in ConfigDomains : TRUE
    ELSE IF domain \notin ConfigDomains THEN ""
    ELSE domain

\* validateUsername without the reserved list
validateUsername_NoReservedList(username) ==
    IF username = NULL \/ username = "" THEN RandomUsername ELSE username

\* validateUsername: the username, or "" where it throws
validateUsername(username) ==
    LET name == IF username = NULL \/ username = "" THEN RandomUsername
                ELSE username
    IN IF name \in RESERVED_USERNAMES THEN "" ELSE name

\* validate(currentConfig, username, domain, email): "ok" or the error
validate(username, domain) ==
    IF username = NULL \/ username = "" THEN "username is required"
    ELSE IF domain \notin ConfigDomains THEN "domain not found"
    ELSE IF <<username, domain>> \in nip05Names THEN "username already exists"
    ELSE "ok"

\* grantPermissions granting connect alone
AccountGrants_ConnectOnly == <<[method |-> "connect", scope |-> NoScope]>>

\* grantPermissions(req, keyName)
AccountGrants ==
    <<[method |-> "connect", scope |-> NoScope],
      [method |-> "sign_event", scope |-> AllScope],
      [method |-> "encrypt", scope |-> NoScope],
      [method |-> "decrypt", scope |-> NoScope]>>

\* createAccount(admin, req) up to its await of requestAuthorization
CreateAccount(pubkey, username, domain) ==
    /\ IF validateDomain(domain) = "" \/ validateUsername(username) = ""
       THEN /\ last' = Did("create_account", "error")
            /\ UNCHANGED <<requests, timers, calls, perms>>
       ELSE /\ Len(requests) < MaxAccounts
            /\ requests' = Append(requests,
                  RequestRow(Nip05(validateUsername(username), validateDomain(domain)),
                             pubkey, "create_account",
                             <<validateUsername(username), validateDomain(domain)>>))
            /\ timers' = timers \cup {ExpiryTimerOf(Len(requests) + 1)}
            /\ calls' = calls \cup
                  {SuspendedCall(Len(requests) + 1, pubkey, "create_account")}
            /\ perms' = OpenedPerms(Len(requests) + 1,
                  Nip05(validateUsername(username), validateDomain(domain)),
                  pubkey, "create_account", NoKind)
            /\ last' = Did("create_account",
                           IF baseUrl # NULL THEN "auth_url" ELSE "requestPermission")
    /\ UNCHANGED <<keyUsers, conditions, policies, policyRules, tokens, now,
                   granted, denied, revoked>>
    /\ UNCHANGED <<configKeys, unlocked, keyTable, nip05Names, webUsers, regs,
                   baseUrl, procVars, settled>>

\* createAccountReal(admin, req, username, domain, email) with the key it
\* generated: the NIP-05 name, the config entry { key: key.privateKey }
\* written to disk, the key loaded, the Key row, the creator's permissions.
\* Where the config file cannot be written, saveCurrentConfig ends the
\* process after the NIP-05 file was written.
createAccountReal(pubkey, username, domain, key) ==
    IF validate(username, domain) # "ok"
    THEN /\ last' = Did("create_account", validate(username, domain))
         /\ UNCHANGED <<nip05Names, configKeys, unlocked, keyTable, keyUsers,
                        conditions, exitCode>>
    ELSE IF saveCurrentConfig # NoExit
    THEN /\ nip05Names' = nip05Names \cup {<<username, domain>>}
         /\ exitCode' = saveCurrentConfig
         /\ last' = Did("process.exit", "Error writing config file")
         /\ UNCHANGED <<configKeys, unlocked, keyTable, keyUsers, conditions>>
    ELSE LET keyName == Nip05(username, domain)
         IN /\ Len(conditions) + Len(AccountGrants) <= MaxAccountRows
            /\ UNCHANGED exitCode
            /\ nip05Names' = nip05Names \cup {<<username, domain>>}
            /\ configKeys' = PutKey(configKeys, keyName, RawEntry(key))
            /\ unlocked' = loadNsec(keyName, NsecEncode(key))
            /\ keyTable' = keyTable \cup {keyName}
            /\ keyUsers' = UpsertKeyUser(keyName, pubkey, NULL)
            /\ conditions' = conditions
                  \o GrantRows(UpsertedId(keyName, pubkey), AccountGrants)
            /\ last' = [op |-> "create_account", result |-> "ok",
                        subject |-> UpsertedId(keyName, pubkey),
                        key |-> keyName, to |-> pubkey]

\* createAccount going on whatever requestAuthorization gave
authorizationWithPayload_Unchecked(result, value) == TRUE

\* const authorizationWithPayload = await requestAuthorization(...);
\* if (authorizationWithPayload): the promise resolved, and with a truthy
\* value.  A rejected promise throws at the await.
authorizationWithPayload(result, value) ==
    result = "resolved" /\ value # "undefined"

\* urlAuthFlow resolving whatever the row says
urlAuthOutcome_ResolveFirst(allowed) == "resolved"

\* how the polling of urlAuthFlow settles the promise on a row it finds
\* answered: if (record.allowed === false) reject(record.payload);
\* resolve(record.params).  The first call settles the promise, the
\* resolve after a reject changes nothing.
urlAuthOutcome(allowed) ==
    IF allowed = "false" THEN "rejected" ELSE "resolved"

\* one round of the polling interval of urlAuthFlow that finds the request
\* answered: it clears the interval and settles the call; a create_account
\* call that resolved goes on to createAccountReal with the payload of the
\* row, one that was rejected throws
UrlAuthPoll(c, key) ==
    /\ c \in calls
    /\ c.flow = "url"
    /\ requests[c.id].allowed # NULL
    /\ calls' = calls \ {c}
    /\ settled' = settled \cup
          {Settlement(c, urlAuthOutcome(requests[c.id].allowed),
                      IF requests[c.id].allowed = "false" THEN "payload" ELSE "params",
                      {}, requests[c.id].allowed)}
    /\ IF /\ c.then = "create_account"
          /\ authorizationWithPayload(
                urlAuthOutcome(requests[c.id].allowed),
                IF requests[c.id].allowed = "false" THEN "payload" ELSE "params")
       THEN createAccountReal(c.pubkey, requests[c.id].params[1],
                              requests[c.id].params[2], key)
       ELSE /\ last' = Did("requestAuthorization",
                           urlAuthOutcome(requests[c.id].allowed))
            /\ UNCHANGED <<nip05Names, configKeys, unlocked, keyTable, keyUsers,
                           conditions, exitCode>>
    /\ UNCHANGED <<policies, policyRules, tokens, now, granted, denied, revoked>>
    /\ UNCHANGED <<requests, timers, webUsers, regs, baseUrl, configWritable, writers,
                   monitor, applying, perms>>

\* the calls and the history after the promise p of requestPermission has
\* settled: adminAuthFlow calls resolve() for a truthy value, reject() for
\* any other (both without a value), and the caller of requestAuthorization
\* goes on.  A create_account call that resolves gets no payload and ends
\* without an account.
AdminFlowCalls(p) == {c \in calls : c.id = p.id /\ c.flow = "admin"}

AdminFlowSettled(p, value, answers) ==
    settled \cup {Settlement(c, IF value = "true" THEN "resolved" ELSE "rejected",
                             "undefined", answers, NULL) : c \in AdminFlowCalls(p)}

\* requestPermissionResponse(remotePubkey, keyName, method, param, resolve,
\* res) for the answer of an admin to the acl request of p; answer,
\* description, scope: resObj[0], resObj[1], resObj[2].  'always' grants and
\* calls resolve(true), which settles the promise if it is still pending;
\* 'never' and every other answer are logged.  The callback stays registered
\* after the promise has settled.
RequestPermissionResponse(p, answer, description, scope) ==
    /\ p \in perms
    /\ answer \in AdminAnswers \ p.answers
    /\ IF answer = "always"
       THEN /\ Len(conditions) < MaxWebRows
            /\ keyUsers' = UpsertKeyUser(p.keyName, p.remotePubkey, description)
            /\ conditions' = conditions
                  \o GrantRows(UpsertedId(p.keyName, p.remotePubkey),
                               <<[method |-> p.method, scope |-> scope]>>)
            /\ IF p.state = "pending"
               THEN /\ perms' = (perms \ {p}) \cup
                          {[p EXCEPT !.answers = @ \cup {answer}, !.state = "true",
                                     !.settledAt = now]}
                    /\ calls' = calls \ AdminFlowCalls(p)
                    /\ settled' = AdminFlowSettled(p, "true", p.answers \cup {answer})
                    /\ last' = Did("requestAuthorization", "resolved")
               ELSE /\ perms' = (perms \ {p}) \cup
                          {[p EXCEPT !.answers = @ \cup {answer}]}
                    /\ last' = Did("acl", answer)
                    /\ UNCHANGED <<calls, settled>>
       ELSE /\ perms' = (perms \ {p}) \cup {[p EXCEPT !.answers = @ \cup {answer}]}
            /\ last' = Did("acl", answer)
            /\ UNCHANGED <<keyUsers, conditions, calls, settled>>
    /\ UNCHANGED <<policies, policyRules, tokens, now, granted, denied, revoked>>
    /\ UNCHANGED <<requests, timers, configKeys, unlocked, keyTable, nip05Names,
                   webUsers, regs, baseUrl, procVars>>

\* the timer of requestPermission firing: resolve(undefined), which settles
\* the promise if it is still pending; adminAuthFlow then rejects
PermissionTimeout(p) ==
    /\ p \in perms
    /\ ~p.fired
    /\ p.due <= now
    /\ IF p.state = "pending"
       THEN /\ perms' = (perms \ {p}) \cup
                  {[p EXCEPT !.fired = TRUE, !.state = "undefined", !.settledAt = now]}
            /\ calls' = calls \ AdminFlowCalls(p)
            /\ settled' = AdminFlowSettled(p, "undefined", p.answers)
            /\ last' = Did("requestAuthorization", "rejected")
       ELSE /\ perms' = (perms \ {p}) \cup {[p EXCEPT !.fired = TRUE]}
            /\ UNCHANGED <<calls, settled, last>>
    /\ UNCHANGED <<keyUsers, conditions, policies, policyRules, tokens, now,
                   granted, denied, revoked>>
    /\ UNCHANGED <<requests, timers, configKeys, unlocked, keyTable, nip05Names,
                   webUsers, regs, baseUrl, procVars>>

\* settle(id, allowed) of the request ledger: a pending row becomes terminal
settle(id, allowed) ==
    /\ id \in 1..Len(requests)
    /\ requests[id].allowed = NULL
    /\ requests' = [requests EXCEPT ![id].allowed = allowed]
    /\ last' = Did("settle", allowed)
    /\ UNCHANGED <<keyUsers, conditions, policies, policyRules, tokens, now,
                   granted, denied, revoked>>
    /\ UNCHANGED <<timers, configKeys, unlocked, keyTable, nip05Names, webUsers,
                   calls, regs, baseUrl, procVars, perms, settled>>

\* permit(keyName, remotePubkey, method, params) of the authorization engine:
\* the ACL lookup, and on a miss the suspension in requestAuthorization
Permit(keyName, remotePubkey, method, kind) ==
    IF checkIfPubkeyAllowed(keyName, remotePubkey, method, kind) = "undefined"
    THEN RequestAuthorization(keyName, remotePubkey, method, kind)
    ELSE /\ last' = [op |-> "permit",
                     result |-> IF checkIfPubkeyAllowed(keyName, remotePubkey,
                                                        method, kind) = "true"
                                THEN "approved" ELSE "denied",
                     subject |-> FindKeyUser(keyName, remotePubkey)]
         /\ UNCHANGED <<keyUsers, conditions, policies, policyRules, tokens, now,
                        granted, denied, revoked, hostVars>>

\* processRegistrationWebHandler(request, reply) up to its wait for the
\* account's Key row; passwordOk: body.password has 8 characters or more
ProcessRegistrationWebHandler(id, username, domain, passwordOk) ==
    /\ id \in 1..Len(requests)
    /\ IF requests[id].allowed # NULL
       THEN /\ last' = Did("processRegistrationWebHandler",
                           "Request not found or already processed")
            /\ UNCHANGED <<requests, regs>>
       ELSE IF <<username, domain>> \in webUsers
       THEN /\ last' = Did("processRegistrationWebHandler", "Username already exists")
            /\ UNCHANGED <<requests, regs>>
       ELSE IF ~passwordOk
       THEN /\ last' = Did("processRegistrationWebHandler", "Password is too short")
            /\ UNCHANGED <<requests, regs>>
       ELSE /\ requests' = [requests EXCEPT ![id].params = <<username, domain>>,
                                            ![id].allowed = "true"]
            /\ regs' = regs \cup {[id |-> id, username |-> username,
                                   domain |-> domain]}
            /\ last' = Did("processRegistrationWebHandler", "waiting")
    /\ UNCHANGED <<keyUsers, conditions, policies, policyRules, tokens, now,
                   granted, denied, revoked>>
    /\ UNCHANGED <<timers, configKeys, unlocked, keyTable, nip05Names, webUsers,
                   calls, baseUrl, procVars,
                   perms, settled>>

\* the rest of processRegistrationWebHandler, once its polling finds a Key
\* row named record.keyName: the User row, then the grant of record.method
RegistrationKeyPoll(g) ==
    /\ g \in regs
    /\ requests[g.id].keyName \in keyTable
    /\ Len(conditions) < MaxAccountRows
    /\ regs' = regs \ {g}
    /\ webUsers' = webUsers \cup {<<g.username, g.domain>>}
    /\ keyUsers' = UpsertKeyUser(requests[g.id].keyName,
                                 requests[g.id].remotePubkey, NULL)
    /\ conditions' = conditions
          \o GrantRows(UpsertedId(requests[g.id].keyName, requests[g.id].remotePubkey),
                       <<[method |-> requests[g.id].method, scope |-> NoScope]>>)
    /\ last' = Did("processRegistrationWebHandler", "ok")
    /\ UNCHANGED <<policies, policyRules, tokens, now, granted, denied, revoked>>
    /\ UNCHANGED <<requests, timers, configKeys, unlocked, keyTable, nip05Names,
                   calls, baseUrl, procVars,
                   perms, settled>>

(***************************************************************************)
(* The admin plane.                                                        *)
(***************************************************************************)
\* const allowNewKeys = true
allowNewKeys == TRUE
\* config.admin.npubs, and the requesters of the admin plane (hex pubkeys)
AdminNpubs == {"npub1A1"}
Senders == {"A1", "R1"}
NotAdminError == "You are not designated to administrate this bunker"

\* nip19.decode(npub).data
NpubDecode(npub) ==
    IF \E h \in Senders : "npub1" \o h = npub
    THEN CHOOSE h \in Senders : "npub1" \o h = npub
    ELSE "invalid"

\* validateRequestFromAdmin(req, npubs)
validateRequestFromAdmin(pubkey, npubs) ==
    /\ pubkey # NULL
    /\ pubkey \in {NpubDecode(n) : n \in npubs}

\* validateRequest admitting every sender
validateRequest_AdmitAll(pubkey, method) == "ok"

\* AdminInterface.validateRequest(req): "ok" or the error it throws
validateRequest(pubkey, method) ==
    IF method = "create_account" /\ allowNewKeys THEN "ok"
    ELSE IF ~validateRequestFromAdmin(pubkey, AdminNpubs) THEN NotAdminError
    ELSE "ok"

\* the commands that only read
ReadCommands == {"get_keys", "get_key_users", "get_key_tokens", "get_policies", "ping"}

\* AdminInterface.handleRequest(req), req = (pubkey, method, params)
HandleRequest(pubkey, method, params) ==
    IF validateRequest(pubkey, method) # "ok"
    THEN /\ last' = [op |-> "handleRequest", result |-> validateRequest(pubkey, method),
                     subject |-> NoId, to |-> pubkey]
         /\ UNCHANGED <<keyUsers, conditions, policies, policyRules, tokens, now,
                        granted, denied, revoked, hostVars>>
    ELSE CASE method = "rename_key_user" -> RenameKeyUser(params[1], params[2])
           [] method = "revoke_user" -> RevokeUser(params[1])
           [] method = "create_new_key" ->
                 \E generated \in GeneratedKeys, iv \in IVs :
                     CreateNewKey(params[1], params[2], params[3], generated, iv)
           [] method = "create_account" -> CreateAccount(pubkey, params[1], params[2])
           [] method = "unlock_key" -> UnlockKey(params[1], params[2])
           [] method = "create_new_policy" -> CreateNewPolicy(params[1])
           [] method = "create_new_token" ->
                 CreateNewToken(params[1], params[2], params[3], params[4])
           [] method \in ReadCommands ->
                 /\ last' = Did(method, "ok")
                 /\ UNCHANGED <<keyUsers, conditions, policies, policyRules, tokens,
                                now, granted, denied, revoked, hostVars>>
           [] OTHER ->
                 /\ last' = Did("handleRequest", "Unknown method")
                 /\ UNCHANGED <<keyUsers, conditions, policies, policyRules, tokens,
                                now, granted, denied, revoked, hostVars>>

\* the requests a sender may put on the admin plane, create_account apart
CommandFrom(pubkey) ==
    \/ \E id \in 0..1 : HandleRequest(pubkey, "revoke_user", <<id>>)
    \/ HandleRequest(pubkey, "rename_key_user", <<1, "phone">>)
    \/ \E nsec \in {NULL, "nsec1a", "junk"} :
          HandleRequest(pubkey, "create_new_key", <<"k1", "pw", nsec>>)
    \/ HandleRequest(pubkey, "unlock_key", <<"k1", "pw">>)
    \/ HandleRequest(pubkey, "create_new_policy", <<PolicyOneRule>>)
    \/ HandleRequest(pubkey, "create_new_token", <<"k1", "client", 1, 0>>)
    \/ \E m \in {"ping", "bogus"} : HandleRequest(pubkey, m, <<>>)

AccountRequestFrom(pubkey) ==
    \E username \in {"bob", "admin"} :
        HandleRequest(pubkey, "create_account", <<username, "example.com">>)

(***************************************************************************)
(* The liveness monitor.                                                   *)
(***************************************************************************)
\* setTimeout(..., 50000) in resetDeath, setInterval(..., 20000) in pingOrDie
DeathMs == 50000
PingMs == 20000

\* before pingOrDie has run.  deathTimer, pingDue: when the death timer and
\* the next round of the ping interval are due; inflight: pings published and
\* not yet delivered back; startedAt, lastPing: history, when pingOrDie ran
\* and when the last inbound self-ping arrived
NoMonitor ==
    [deathTimer |-> NoTime, pingDue |-> NoTime, inflight |-> 0,
     startedAt |-> NoTime, lastPing |-> NoTime]

\* resetDeath that leaves a running timer alone
resetDeath_KeepRunning(m) ==
    IF m.deathTimer # NoTime THEN m ELSE [m EXCEPT !.deathTimer = now + DeathMs]

\* resetDeath(): if (deathTimer) clearTimeout(deathTimer);
\* deathTimer = setTimeout(..., 50000)
resetDeath(m) == [m EXCEPT !.deathTimer = now + DeathMs]

\* pingOrDie(ndk): the subscription to the self-pings, the first
\* resetDeath(), the ping interval
PingOrDie ==
    /\ exitCode = NoExit
    /\ monitor = NoMonitor
    /\ monitor' = [resetDeath(monitor) EXCEPT !.pingDue = now + PingMs,
                                              !.startedAt = now]
    /\ UNCHANGED <<keyUsers, conditions, policies, policyRules, tokens, now,
                   granted, denied, revoked, last>>
    /\ UNCHANGED <<requests, timers, configKeys, unlocked, keyTable, nip05Names,
                   webUsers, calls, regs, baseUrl, perms, settled, exitCode,
                   configWritable, applying, writers>>

\* one round of the ping interval: the ping event is published, or
\* publish() fails and the catch calls process.exit(1)
SendPing(published) ==
    /\ exitCode = NoExit
    /\ monitor.pingDue # NoTime
    /\ monitor.pingDue <= now
    /\ IF published
       THEN /\ monitor' = [monitor EXCEPT
                  !.pingDue = @ + PingMs,
                  !.inflight = IF @ < MaxInflight THEN @ + 1 ELSE @]
            /\ UNCHANGED <<exitCode, last>>
       ELSE /\ monitor' = [monitor EXCEPT !.pingDue = @ + PingMs]
            /\ exitCode' = 1
            /\ last' = Did("process.exit", "Failed to send ping event")
    /\ UNCHANGED <<keyUsers, conditions, policies, policyRules, tokens, now,
                   granted, denied, revoked>>
    /\ UNCHANGED <<requests, timers, configKeys, unlocked, keyTable, nip05Names,
                   webUsers, calls, regs, baseUrl, perms, settled,
                   configWritable, applying, writers>>

\* sub.on("event"): a self-ping comes back from the relay; resetDeath()
ReceivePing ==
    /\ exitCode = NoExit
    /\ monitor.inflight > 0
    /\ monitor' = [resetDeath(monitor) EXCEPT !.inflight = @ - 1,
                                              !.lastPing = now]
    /\ UNCHANGED <<keyUsers, conditions, policies, policyRules, tokens, now,
                   granted, denied, revoked, last>>
    /\ UNCHANGED <<requests, timers, configKeys, unlocked, keyTable, nip05Names,
                   webUsers, calls, regs, baseUrl, perms, settled, exitCode,
                   configWritable, applying, writers>>

\* a published ping the relay never delivers back
LosePing ==
    /\ exitCode = NoExit
    /\ monitor.inflight > 0
    /\ monitor' = [monitor EXCEPT !.inflight = @ - 1]
    /\ UNCHANGED <<keyUsers, conditions, policies, policyRules, tokens, now,
                   granted, denied, revoked, last>>
    /\ UNCHANGED <<requests, timers, configKeys, unlocked, keyTable, nip05Names,
                   webUsers, calls, regs, baseUrl, perms, settled, exitCode,
                   configWritable, applying, writers>>

\* the death timer's callback: process.exit(1)
DeathTimer ==
    /\ exitCode = NoExit
    /\ monitor.deathTimer # NoTime
    /\ monitor.deathTimer <= now
    /\ exitCode' = 1
    /\ last' = Did("process.exit", "No ping event received")
    /\ UNCHANGED <<keyUsers, conditions, policies, policyRules, tokens, now,
                   granted, denied, revoked>>
    /\ UNCHANGED <<requests, timers, configKeys, unlocked, keyTable, nip05Names,
                   webUsers, calls, regs, baseUrl, perms, settled, monitor,
                   configWritable, applying, writers>>

(***************************************************************************)
(* The approval site's authentication.                                     *)
(***************************************************************************)
\* the accounts registered on the site: User rows, as <<username, domain>>
SiteUsers == {<<"alice", "example.com">>, <<"bob", "example.com">>}
\* createUserRecord(username, domain, pubkey, email, password): the pubkey
\* and the password of the User row of an account
UserPubkey(user) == "pk-" \o user[1]
UserPassword(user) == "pw-" \o user[1]
\* the jwt cookie and the password field of a request to the site; NULL: none
Cookies == {NULL, "stale"} \cup {UserPubkey(u) : u \in SiteUsers}
Passwords == {NULL, "guess"} \cup {UserPassword(u) : u \in SiteUsers}

\* validateAuthCookie(request): a jwt cookie that is the pubkey of a User row
validateAuthCookie(jwt) ==
    /\ jwt # NULL
    /\ \E u \in webUsers : UserPubkey(u) = jwt

\* const [username, domain] = keyName.split("@"); <<>> where one is missing
SplitKeyName(keyName) ==
    IF \E u \in SiteUsers : Nip05(u[1], u[2]) = keyName
    THEN CHOOSE u \in SiteUsers : Nip05(u[1], u[2]) = keyName
    ELSE <<>>

\* validateRequest of the site with the password comparison left out
webValidateRequest_NoPasswordCheck(jwt, password, keyName) ==
    IF validateAuthCookie(jwt) THEN "ok"
    ELSE IF SplitKeyName(keyName) = <<>> THEN "Invalid keyName"
    ELSE IF SplitKeyName(keyName) \notin webUsers THEN "No user record found"
    ELSE "ok"

\* validateRequest(request, record) of the site: "ok" where it returns, and
\* the message of the error where it throws
webValidateRequest(jwt, password, keyName) ==
    IF validateAuthCookie(jwt) THEN "ok"
    ELSE IF SplitKeyName(keyName) = <<>> THEN "Invalid keyName"
    ELSE IF SplitKeyName(keyName) \notin webUsers THEN "No user record found"
    ELSE IF password # UserPassword(SplitKeyName(keyName)) THEN "Invalid password"
    ELSE "ok"

\* what processRequestWebHandler has done for row id with the credentials
Answered(id, result, error, jwt, password) ==
    [op |-> "processRequestWebHandler", result |-> result, subject |-> id,
     error |-> error, jwt |-> jwt, password |-> password]

\* processRequestWebHandler(request, reply) for the row id, with the jwt
\* cookie and the password of the request
ProcessRequestWebHandlerBy(id, jwt, password) ==
    /\ id \in 1..Len(requests)
    /\ IF requests[id].keyName = NULL
       THEN /\ last' = Answered(id, "undefined", NULL, jwt, password)
            /\ UNCHANGED <<requests, keyUsers, conditions>>
       ELSE IF webValidateRequest(jwt, password, requests[id].keyName) # "ok"
       THEN /\ last' = Answered(id, "401",
                                webValidateRequest(jwt, password, requests[id].keyName),
                                jwt, password)
            /\ UNCHANGED <<requests, keyUsers, conditions>>
       ELSE LET r == requests[id]
                grants == <<[method |-> r.method, scope |-> AllScope]>>
                          \o (IF r.method = "connect"
                              THEN <<[method |-> "sign_event", scope |-> AllScope]>>
                              ELSE <<>>)
            IN /\ Len(conditions) + Len(grants) <= MaxWebRows
               /\ requests' = [requests EXCEPT ![id].allowed = "true"]
               /\ keyUsers' = UpsertKeyUser(r.keyName, r.remotePubkey, NULL)
               /\ conditions' = conditions
                     \o GrantRows(UpsertedId(r.keyName, r.remotePubkey), grants)
               /\ last' = Answered(id, "ok", NULL, jwt, password)
    /\ UNCHANGED <<policies, policyRules, tokens, now, granted, denied, revoked>>
    /\ UNCHANGED <<timers, configKeys, unlocked, keyTable, nip05Names, webUsers,
                   calls, regs, baseUrl, procVars,
                   perms, settled>>

(***************************************************************************)
(* The writers of the config file, step by step.  A writer reads the file  *)
(* into an object of its own (getCurrentConfig parses it anew on every     *)
(* call), suspends at its awaits, puts its entry into that object and      *)
(* writes the whole object back with saveCurrentConfig.                    *)
(***************************************************************************)
\* a writer that holds the currentConfig it has read and has yet to write
ConfigWriter(op, name, entry, nsec, pubkey, account) ==
    [op |-> op, name |-> name, entry |-> entry, nsec |-> nsec, pubkey |-> pubkey,
     account |-> account, keys |-> configKeys, done |-> FALSE]

\* createNewKey(admin, req) up to saveEncrypted's
\*   const currentConfig = await getCurrentConfig(config)
CreateNewKeyBegin(keyName, passphrase, nsec, generated, iv) ==
    /\ Cardinality(writers) < MaxWriters
    /\ \A w \in writers : w.name # keyName
    /\ IF keyName = NULL \/ passphrase = NULL
       THEN /\ last' = Did("create_new_key", "Invalid params")
            /\ UNCHANGED writers
       ELSE IF nsec # NULL /\ NsecDecode(nsec) = "invalid"
       THEN /\ last' = Did("create_new_key", "invalid nsec")
            /\ UNCHANGED writers
       ELSE LET key == IF nsec # NULL THEN NsecDecode(nsec) ELSE generated
            IN /\ writers' = writers \cup
                     {ConfigWriter("create_new_key", keyName,
                                   EncryptedEntry(NsecEncode(key), passphrase, iv),
                                   NsecEncode(key), NULL, <<>>)}
               /\ last' = Did("getCurrentConfig", "create_new_key")
    /\ UNCHANGED <<keyUsers, conditions, policies, policyRules, tokens, now,
                   granted, denied, revoked>>
    /\ UNCHANGED <<requests, timers, configKeys, unlocked, keyTable, nip05Names,
                   webUsers, calls, regs, baseUrl, perms, settled, exitCode,
                   configWritable, monitor, applying>>

\* createAccountReal(admin, req, username, domain, email) up to its
\* await validate(currentConfig, username, domain, email), with the
\* currentConfig it has read at its first line
CreateAccountRealBegin(pubkey, username, domain, key) ==
    /\ Cardinality(writers) < MaxWriters
    /\ \A w \in writers : w.name # Nip05(username, domain)
    /\ IF validate(username, domain) # "ok"
       THEN /\ last' = Did("create_account", validate(username, domain))
            /\ UNCHANGED writers
       ELSE /\ writers' = writers \cup
                  {ConfigWriter("create_account", Nip05(username, domain),
                                RawEntry(key), NsecEncode(key), pubkey,
                                <<username, domain>>)}
            /\ last' = Did("getCurrentConfig", "create_account")
    /\ UNCHANGED <<keyUsers, conditions, policies, policyRules, tokens, now,
                   granted, denied, revoked>>
    /\ UNCHANGED <<requests, timers, configKeys, unlocked, keyTable, nip05Names,
                   webUsers, calls, regs, baseUrl, perms, settled, exitCode,
                   configWritable, monitor, applying>>

\* the rest of a writer: currentConfig.keys[name] = entry and
\* saveCurrentConfig(config, currentConfig) with the object it has read,
\* then admin.loadNsec, and for an account the NIP-05 name before them and
\* the Key row and the creator's permissions after them
ConfigWriterStep(w) ==
    /\ w \in writers
    /\ ~w.done
    /\ exitCode = NoExit
    /\ IF saveCurrentConfig # NoExit
       THEN /\ exitCode' = saveCurrentConfig
            /\ nip05Names' = IF w.op = "create_account"
                             THEN nip05Names \cup {w.account}
                             ELSE nip05Names
            /\ last' = Did("process.exit", "Error writing config file")
            /\ UNCHANGED <<configKeys, unlocked, keyTable, keyUsers, conditions,
                           writers>>
       ELSE /\ configKeys' = PutKey(w.keys, w.name, w.entry)
            /\ unlocked' = loadNsec(w.name, w.nsec)
            /\ writers' = (writers \ {w}) \cup {[w EXCEPT !.done = TRUE]}
            /\ last' = Did(w.op, "ok")
            /\ UNCHANGED exitCode
            /\ IF w.op = "create_account"
               THEN /\ Len(conditions) + Len(AccountGrants) <= MaxAccountRows
                    /\ nip05Names' = nip05Names \cup {w.account}
                    /\ keyTable' = keyTable \cup {w.name}
                    /\ keyUsers' = UpsertKeyUser(w.name, w.pubkey, NULL)
                    /\ conditions' = conditions
                          \o GrantRows(UpsertedId(w.name, w.pubkey), AccountGrants)
               ELSE UNCHANGED <<nip05Names, keyTable, keyUsers, conditions>>
    /\ UNCHANGED <<policies, policyRules, tokens, now, granted, denied, revoked>>
    /\ UNCHANGED <<requests, timers, webUsers, calls, regs, baseUrl, perms,
                   settled, configWritable, monitor, applying>>

(***************************************************************************)
(* Specifications.                                                         *)
(***************************************************************************)
InitStores ==
    /\ keyUsers = <<>>
    /\ conditions = <<>>
    /\ policies = <<>>
    /\ policyRules = <<>>
    /\ tokens = <<>>
    /\ now = 0
    /\ granted = {}
    /\ denied = {}
    /\ revoked = {}
    /\ last = Did("none", "ok")
    /\ requests = <<>>
    /\ timers = {}
    /\ configKeys = <<>>
    /\ unlocked = <<>>
    /\ keyTable = {}
    /\ nip05Names = {}
    /\ webUsers = {}
    /\ calls = {}
    /\ regs = {}
    /\ perms = {}
    /\ settled = {}
    /\ exitCode = NoExit
    /\ monitor = NoMonitor
    /\ applying = {}
    /\ writers = {}

\* a daemon with no approval site configured
Init == InitStores /\ baseUrl = NULL /\ configWritable = TRUE

\* a daemon with or without config.baseUrl
InitHost == InitStores /\ baseUrl \in {NULL, BunkerUrl} /\ configWritable = TRUE

\* a daemon whose config.baseUrl names the approval site
InitWeb == InitStores /\ baseUrl = BunkerUrl /\ configWritable = TRUE

\* a daemon whose config file may have become unwritable (a full disk, a
\* read-only mount, a changed owner)
InitCrash == InitStores /\ baseUrl = BunkerUrl /\ configWritable \in BOOLEAN

\* the ACL store: grants, denies, revocation, token redemption and lookups
Next ==
    \/ \E r \in Pubkeys, k \in KeyNames, m \in Methods, d \in Descriptions, s \in Scopes :
          Grant(r, k, m, d, s)
    \/ \E r \in Pubkeys, k \in KeyNames : Deny(r, k)
    \/ \E r \in Pubkeys, k \in KeyNames, m \in Methods, n \in Kinds :
          Lookup(k, r, m, n)
    \/ \E id \in 0..3 : RevokeUser(id)

Spec == Init /\ [][Next]_vars

\* token redemption: policies, tokens, expiry and failing store writes
NextToken ==
    \/ \E rules \in {PolicyOneRule, PolicyTwoRules} : CreateNewPolicy(rules)
    \/ \E k \in KeyNames, c \in {NULL, "client"}, p \in 0..2, h \in {0, 1} :
          CreateNewToken(k, c, p, h)
    \/ \E r \in Pubkeys, t \in {"", "tok1", "tok2"} : ApplyToken(r, t, 0)
    \/ \E t \in {"tok1", "tok2"}, f \in 1..5 : ApplyToken("R1", t, f)
    \/ Tick(2 * HourMs)

SpecToken == Init /\ [][NextToken]_vars

\* revocation against everything that writes the ACL afterwards
NextRevoke ==
    \/ \E id \in 0..2 : RevokeUser(id)
    \/ \E m \in Methods, sc \in {NoScope, AllScope} :
          Grant("R1", "k1", m, "alice-app", sc)
    \/ CreateNewPolicy(PolicyOneRule)
    \/ CreateNewToken("k1", "client", 1, 0)
    \/ ApplyToken("R1", "tok1", 0)
    \/ \E m \in Methods, n \in Kinds : Lookup("k1", "R1", m, n)
    \/ Tick(HourMs)

SpecRevoke == Init /\ [][NextRevoke]_vars

\* The store as a lookup may find it: the database outlives the process, and
\* checkIfPubkeyAllowed reads rows (method '*', allowed false) that no code
\* path writes, so the lookups are checked over every small table.
DrawnRows ==
    [keyUserId : 1..2, method : {"connect", "sign_event", "*", NULL},
     kind : {NULL, "1", "all"}, allowed : BOOLEAN]
DrawnKeyUser(r, t) ==
    [keyName |-> "k1", userPubkey |-> r, description |-> NULL, revokedAt |-> t]

InitLookup ==
    /\ \E t1 \in {NoTime, 0}, t2 \in {NoTime, 0} :
          keyUsers = <<DrawnKeyUser("R1", t1), DrawnKeyUser("R2", t2)>>
    /\ \E c \in {<<>>} \cup {<<a>> : a \in DrawnRows}
                \cup {<<a, b>> : a \in DrawnRows, b \in DrawnRows} :
          conditions = c
    /\ policies = <<>>
    /\ policyRules = <<>>
    /\ tokens = <<>>
    /\ now = 0
    /\ granted = {}
    /\ denied = {}
    /\ revoked = {}
    /\ last = Did("none", "ok")
    /\ requests = <<>>
    /\ timers = {}
    /\ configKeys = <<>>
    /\ unlocked = <<>>
    /\ keyTable = {}
    /\ nip05Names = {}
    /\ webUsers = {}
    /\ calls = {}
    /\ regs = {}
    /\ perms = {}
    /\ settled = {}
    /\ exitCode = NoExit
    /\ configWritable = TRUE
    /\ monitor = NoMonitor
    /\ applying = {}
    /\ writers = {}
    /\ baseUrl = NULL

NextLookup ==
    \E r \in Pubkeys, m \in Methods, n \in Kinds : Lookup("k1", r, m, n)

SpecLookup == InitLookup /\ [][NextLookup]_vars

\* the request ledger on the web approval path: records, their expiry
\* timers, the approval site, the polling of the suspended requests
NextLedger ==
    \/ \E m \in Methods : RequestAuthorization("k1", "R1", m, NoKind)
    \/ \E t \in timers : ExpiryTimer(t)
    \/ \E id \in 1..MaxRequests, valid \in BOOLEAN : ProcessRequestWebHandler(id, valid)
    \/ \E c \in calls, key \in GeneratedKeys : UrlAuthPoll(c, key)
    \/ \E id \in 1..MaxRequests : settle(id, "false")
    \/ (now < LedgerHorizon /\ Tick(ExpiryMs \div 2))

SpecLedger == InitWeb /\ [][NextLedger]_vars

\* the web approval path by itself: suspended requests, the approval site
\* and the ledger settling their rows, the polling that resumes them
NextWeb ==
    \/ \E m \in Methods : RequestAuthorization("k1", "R1", m, NoKind)
    \/ \E id \in 1..MaxRequests, valid \in BOOLEAN : ProcessRequestWebHandler(id, valid)
    \/ \E id \in 1..MaxRequests : settle(id, "false")
    \/ \E c \in calls, key \in GeneratedKeys : UrlAuthPoll(c, key)

SpecWeb == InitWeb /\ [][NextWeb]_vars

\* the admin plane: commands from admins and from others, and the admins'
\* answers to permission requests
NextAdmin ==
    \/ \E s \in Senders : CommandFrom(s)
    \/ \E s \in Senders : AccountRequestFrom(s)
    \/ \E p \in perms : RequestPermissionResponse(p, "always", "alice-app", NoScope)

SpecAdmin == Init /\ [][NextAdmin]_vars

\* account creation end to end: the create_account request, the approval
\* site's registration form, the polling that resumes the request
NextAccount ==
    \/ \E s \in Senders : AccountRequestFrom(s)
    \/ \E s \in Senders, nsec \in {NULL, "nsec1a"} :
          HandleRequest(s, "create_new_key", <<"k1", "pw", nsec>>)
    \/ \E id \in 1..MaxAccounts, username \in {"bob", "admin"}, passwordOk \in BOOLEAN :
          ProcessRegistrationWebHandler(id, username, "example.com", passwordOk)
    \/ \E g \in regs : RegistrationKeyPoll(g)
    \/ \E c \in calls, key \in GeneratedKeys : UrlAuthPoll(c, key)
    \/ \E p \in perms : RequestPermissionResponse(p, "always", "alice-app", NoScope)
    \/ \E p \in perms : PermissionTimeout(p)
    \/ \E t \in timers : ExpiryTimer(t)
    \/ \E nsec \in {"nsec1a", "junk"} : AddNsec("k2", "pw", nsec, "iv1")
    \/ (now < PermissionMs /\ Tick(PermissionMs))
    \/ (now < ExpiryMs /\ Tick(ExpiryMs))

SpecAccount == InitHost /\ [][NextAccount]_vars

\* the authorization engine on the direct-admin path: permit checks of a
\* client that sends its next request when the last one has settled, the
\* admins' answers to the acl fanout, the 10 s timer
NextPermit ==
    \/ (calls = {} /\ Permit("k1", "R1", "connect", NoKind))
    \/ (calls = {} /\ Permit("k1", "R1", "sign_event", 1))
    \/ \E p \in perms, answer \in AdminAnswers, sc \in {NoScope, AllScope} :
          /\ Cardinality(p.answers) < MaxAnswers
          /\ RequestPermissionResponse(p, answer, "alice-app", sc)
    \/ \E p \in perms : PermissionTimeout(p)
    \/ (now < PermitHorizon /\ Tick(PermissionMs \div 2))

SpecPermit == Init /\ [][NextPermit]_vars

\* the 10 s timer of the acl fanout against the admins' answers, for the
\* sign_event requests of one client
NextTimeout ==
    \/ (calls = {} /\ Permit("k1", "R1", "sign_event", 1))
    \/ \E p \in perms, answer \in AdminAnswers :
          /\ Cardinality(p.answers) < MaxAnswers
          /\ RequestPermissionResponse(p, answer, "alice-app", NoScope)
    \/ \E p \in perms : PermissionTimeout(p)
    \/ (now < TimeoutHorizon /\ Tick(PermissionMs \div 2))

SpecTimeout == Init /\ [][NextTimeout]_vars

\* the web approval path against the 60 s expiry of the ledger rows.  The
\* event loop runs a timer that is due and a polling round that finds its
\* row answered, and time passes; whether anybody answers on the approval
\* site is up to the user.
NextExpiry ==
    \/ RequestAuthorization("k1", "R1", "connect", NoKind)
    \/ \E t \in timers : ExpiryTimer(t)
    \/ \E id \in 1..MaxRequests : ProcessRequestWebHandler(id, TRUE)
    \/ \E id \in 1..MaxRequests : settle(id, "false")
    \/ \E c \in calls, key \in GeneratedKeys : UrlAuthPoll(c, key)
    \/ (now < LedgerHorizon /\ Tick(ExpiryMs \div 2))

FairExpiry ==
    /\ WF_vars(\E t \in timers : ExpiryTimer(t))
    /\ WF_vars(\E c \in calls, key \in GeneratedKeys : UrlAuthPoll(c, key))
    /\ WF_vars(now < LedgerHorizon /\ Tick(ExpiryMs \div 2))

SpecExpiry == InitWeb /\ [][NextExpiry]_vars /\ FairExpiry

\* the liveness monitor: its pings out and back, its death timer, the clock
NextMonitor ==
    \/ PingOrDie
    \/ \E published \in BOOLEAN : SendPing(published)
    \/ ReceivePing
    \/ LosePing
    \/ DeathTimer
    \/ (exitCode = NoExit /\ now < MonitorHorizon /\ Tick(PingMs \div 2))

SpecMonitor == Init /\ [][NextMonitor]_vars

\* the admin plane of a process that runs until something ends it: the
\* commands, account creation through the approval site
NextCrash ==
    \/ (exitCode = NoExit /\ \E s \in Senders : CommandFrom(s))
    \/ (exitCode = NoExit /\ \E s \in Senders : AccountRequestFrom(s))
    \/ (exitCode = NoExit
        /\ \E id \in 1..MaxAccounts :
              ProcessRegistrationWebHandler(id, "bob", "example.com", TRUE))
    \/ (exitCode = NoExit
        /\ \E c \in calls, key \in GeneratedKeys : UrlAuthPoll(c, key))

SpecCrash == InitCrash /\ [][NextCrash]_vars

\* encryptNsec and decryptNsec by themselves: a text is encrypted under one
\* passphrase and the result decrypted under another or the same
Roundtrip(nsec, passphrase, iv, other) ==
    /\ last' = [op |-> "decryptNsec",
                result |-> decryptNsec(encryptNsec(nsec, passphrase, iv).iv,
                                       encryptNsec(nsec, passphrase, iv).data,
                                       other),
                subject |-> NoId, nsec |-> nsec, passphrase |-> passphrase,
                iv |-> iv, with |-> other]
    /\ UNCHANGED <<keyUsers, conditions, policies, policyRules, tokens, now,
                   granted, denied, revoked, hostVars>>

NextKeys ==
    \E nsec \in {NsecEncode(h) : h \in PrivateKeys} \cup {"junk", "nsec1zz"},
       passphrase \in Passphrases, iv \in {"iv1", "iv2"}, other \in Passphrases :
        Roundtrip(nsec, passphrase, iv, other)

SpecKeys == Init /\ [][NextKeys]_vars

\* account creation against its authorization: the request, the approval
\* site approving through the registration form or the ledger denying, the
\* admins' answers and the 10 s timer where there is no approval site
NextGate ==
    \/ \E s \in Senders : AccountRequestFrom(s)
    \/ \E id \in 1..MaxAccounts, passwordOk \in BOOLEAN :
          ProcessRegistrationWebHandler(id, "bob", "example.com", passwordOk)
    \/ \E id \in 1..MaxAccounts : settle(id, "false")
    \/ \E c \in calls, key \in GeneratedKeys : UrlAuthPoll(c, key)
    \/ \E p \in perms : RequestPermissionResponse(p, "always", "alice-app", NoScope)
    \/ \E p \in perms : PermissionTimeout(p)
    \/ (now < PermissionMs /\ Tick(PermissionMs))

SpecGate == InitHost /\ [][NextGate]_vars

\* the acl fanout with every answer the admins may give, in any order, and
\* the 10 s timer
NextFanout ==
    \/ (calls = {} /\ Permit("k1", "R1", "connect", NoKind))
    \/ \E p \in perms, answer \in AdminAnswers :
          RequestPermissionResponse(p, answer, "alice-app", NoScope)
    \/ \E p \in perms : PermissionTimeout(p)
    \/ (now < TimeoutHorizon /\ Tick(PermissionMs \div 2))

SpecFanout == Init /\ [][NextFanout]_vars

\* token redemption by two clients at once
NextRace ==
    \/ \E rules \in {PolicyOneRule, PolicyTwoRules} : CreateNewPolicy(rules)
    \/ CreateNewToken("k1", "client", 1, 0)
    \/ \E r \in Pubkeys, t \in {"tok1", "tok2"} : ApplyTokenBegin(r, t)
    \/ \E a \in applying : ApplyTokenStep(a)

SpecRace == Init /\ [][NextRace]_vars

\* a client that sends the same request again while the first is still
\* waiting for the admins: both fan out, an admin answers always, the timers
\* run
NextTwin ==
    \/ \E m \in Methods : Permit("k1", "R1", m, 1)
    \/ \E p \in perms : RequestPermissionResponse(p, "always", "alice-app", AllScope)
    \/ \E p \in perms : PermissionTimeout(p)
    \/ (now < PermitHorizon /\ Tick(PermissionMs \div 2))

SpecTwin == Init /\ [][NextTwin]_vars

\* the admin commands that write the config file, interleaved at their
\* awaits: create_new_key for two names, create_account for two usernames
NextConfig ==
    \/ \E k \in {"k1", "k2"}, n \in {NULL, "nsec1a"} :
          CreateNewKeyBegin(k, "pw", n, "g", "iv1")
    \/ \E u \in {"alice", "bob"} : CreateAccountRealBegin("R1", u, "example.com", "g")
    \/ \E w \in writers : ConfigWriterStep(w)

SpecConfig == Init /\ [][NextConfig]_vars

\* the approval site against revocation: requests suspended on the web
\* path, the approver's answers, the polling, and an admin who revokes
NextApprove ==
    \/ \E m \in Methods : RequestAuthorization("k1", "R1", m, NoKind)
    \/ \E id \in 1..MaxRequests, valid \in BOOLEAN : ProcessRequestWebHandler(id, valid)
    \/ \E c \in calls, key \in GeneratedKeys : UrlAuthPoll(c, key)
    \/ \E id \in 0..1 : RevokeUser(id)

SpecApprove == InitWeb /\ [][NextApprove]_vars

\* policies whose rules carry a kind, an empty kind or none, and the tokens
\* issued and redeemed for them
PolicyRequests == {PolicyOneRule, PolicyTwoRules, PolicyRuleWithoutKind}

NextPolicy ==
    \/ \E rules \in PolicyRequests : CreateNewPolicy(rules)
    \/ \E k \in KeyNames, c \in {NULL, "client"}, p \in 0..2, h \in {0, 1} :
          CreateNewToken(k, c, p, h)
    \/ \E r \in Pubkeys, t \in {"", "tok1", "tok2"} : ApplyToken(r, t, 0)
    \/ Tick(2 * HourMs)

SpecPolicy == Init /\ [][NextPolicy]_vars

\* the approval site of a daemon on which accounts have registered.  The
\* ACL rows of the clients that created the accounts are on KeyUsers of
\* their own, which the site's handler neither reads nor writes for another
\* client; they are left out.
InitSite ==
    /\ keyUsers = <<>>
    /\ conditions = <<>>
    /\ policies = <<>>
    /\ policyRules = <<>>
    /\ tokens = <<>>
    /\ now = 0
    /\ granted = {}
    /\ denied = {}
    /\ revoked = {}
    /\ last = Did("none", "ok")
    /\ requests = <<>>
    /\ timers = {}
    /\ webUsers \in {{<<"bob", "example.com">>}, SiteUsers}
    /\ keyTable = {Nip05(u[1], u[2]) : u \in SiteUsers}
    /\ nip05Names = SiteUsers
    /\ configKeys = [k \in {Nip05(u[1], u[2]) : u \in SiteUsers} |-> RawEntry("g")]
    /\ unlocked = [k \in {Nip05(u[1], u[2]) : u \in SiteUsers} |-> NsecEncode("g")]
    /\ calls = {}
    /\ regs = {}
    /\ perms = {}
    /\ settled = {}
    /\ exitCode = NoExit
    /\ configWritable = TRUE
    /\ monitor = NoMonitor
    /\ applying = {}
    /\ writers = {}
    /\ baseUrl = BunkerUrl

\* connect requests of a client on the key of alice@example.com and on the
\* admin's key k1, and whoever opens the approval page with a cookie or a
\* password
NextSite ==
    \/ \E k \in {"alice@example.com", "k1"} :
          RequestAuthorization(k, "R2", "connect", NoKind)
    \/ \E id \in 1..MaxRequests, jwt \in Cookies, password \in Passwords :
          ProcessRequestWebHandlerBy(id, jwt, password)
    \/ \E c \in calls, key \in GeneratedKeys : UrlAuthPoll(c, key)

SpecSite == InitSite /\ [][NextSite]_vars

\* registration on the approval site: the create_account requests, the form
\* sent with the username asked for or another one, the polling of
\* urlAuthFlow that resumes createAccount, the polling of the handler for the
\* Key row, the 60 s timer of the row.  The event loop runs both intervals
\* and the timers that are due, and time passes.
NextRegister ==
    \/ \E s \in Senders : AccountRequestFrom(s)
    \/ \E id \in 1..MaxAccounts, username \in {"bob", "carl"}, passwordOk \in BOOLEAN :
          ProcessRegistrationWebHandler(id, username, "example.com", passwordOk)
    \/ \E c \in calls, key \in GeneratedKeys : UrlAuthPoll(c, key)
    \/ \E g \in regs : RegistrationKeyPoll(g)
    \/ \E t \in timers : ExpiryTimer(t)
    \/ (now < LedgerHorizon /\ Tick(ExpiryMs \div 2))

FairRegister ==
    /\ WF_vars(\E c \in calls, key \in GeneratedKeys : UrlAuthPoll(c, key))
    /\ WF_vars(\E g \in regs : RegistrationKeyPoll(g))
    /\ WF_vars(\E t \in timers : ExpiryTimer(t))
    /\ WF_vars(now < LedgerHorizon /\ Tick(ExpiryMs \div 2))

SpecRegister == InitWeb /\ [][NextRegister]_vars /\ FairRegister

(***************************************************************************)
(* Claims.                                                                 *)
(***************************************************************************)
\* the event kinds a lookup "matching" a grant's scope may ask for
MatchingKinds(g) == IF g.scope.tag = "number" THEN {g.scope.n} ELSE Kinds

\* C1: once allowAllRequestsFromKey has completed for (keyName, remotePubkey,
\* method, scope) and the KeyUser is neither revoked nor explicitly denied,
\* checkIfPubkeyAllowed with the matching arguments returns true.
C1_GrantThenLookupAllows ==
    \A g \in granted :
        LET id == FindKeyUser(g.keyName, g.remotePubkey)
        IN /\ id # NoId
           /\ (keyUsers[id].revokedAt = NoTime /\ ~HasExplicitReject(id))
              => \A n \in MatchingKinds(g) :
                    checkIfPubkeyAllowed(g.keyName, g.remotePubkey, g.method, n) = "true"

\* C2: a KeyUser that holds a row (method '*', allowed false) is refused for
\* every method and every payload, whatever other rows it holds.
C2_ExplicitDenyAlwaysDenies ==
    \A id \in 1..Len(keyUsers) :
        HasExplicitReject(id)
        => \A m \in Methods, n \in Kinds :
              checkIfPubkeyAllowed(keyUsers[id].keyName, keyUsers[id].userPubkey,
                                   m, n) = "false"

\* a KeyUser with an explicit deny and an allow row for connect, whose
\* connect lookup has just returned false
C2_Witness ==
    \E id \in 1..Len(keyUsers) :
        /\ HasExplicitReject(id)
        /\ \E i \in 1..Len(conditions) :
              /\ conditions[i].keyUserId = id
              /\ conditions[i].method = "connect"
              /\ conditions[i].allowed
        /\ keyUsers[id].revokedAt = NoTime
        /\ last.op = "lookup" /\ last.subject = id /\ last.result = "false"

\* C3: after rejectAllRequestsFromKey(remotePubkey, keyName) the KeyUser
\* exists, holds a row (method '*', allowed false), and every lookup for it
\* returns false.
C3_DenyThenLookupDenies ==
    \A p \in denied :
        LET id == FindKeyUser(p[1], p[2])
        IN /\ id # NoId
           /\ HasExplicitReject(id)
           /\ \A m \in Methods, n \in Kinds :
                 checkIfPubkeyAllowed(p[1], p[2], m, n) = "false"

\* C4: once revoke_user has set revokedAt on a KeyUser, no lookup for that
\* KeyUser returns true, whatever rows it has and whatever runs afterwards.
C4_RevokedNeverAllowed ==
    \A id \in revoked :
        \A m \in Methods, n \in Kinds :
            checkIfPubkeyAllowed(keyUsers[id].keyName, keyUsers[id].userPubkey,
                                 m, n) # "true"

\* a revoked KeyUser that redeemed a token after the revocation, holds an
\* allow row for connect, and whose lookup has just returned false
C4_Witness ==
    \E id \in revoked :
        /\ \E t \in 1..Len(tokens) :
              /\ tokens[t].keyUserId = id
              /\ tokens[t].redeemedAt > keyUsers[id].revokedAt
        /\ \E i \in 1..Len(conditions) :
              /\ conditions[i].keyUserId = id
              /\ conditions[i].method = "connect"
              /\ conditions[i].allowed
        /\ last.op = "lookup" /\ last.subject = id /\ last.result = "false"

\* the token texts a caller may present
TokenTexts == {TokenText(i) : i \in 1..3}

\* C7: once a token has been redeemed, every later applyToken call with that
\* token fails with "Token already redeemed" and leaves the KeyUser and
\* SigningCondition tables as they were.
C7_RedeemedAtMostOnce ==
    [][\A r \in Pubkeys, tok \in TokenTexts :
          (/\ FindToken(tok) # NoId
           /\ tokens[FindToken(tok)].redeemedAt # NoTime
           /\ \E f \in 0..5 : ApplyToken(r, tok, f))
          => /\ last'.result = "Token already redeemed"
             /\ keyUsers' = keyUsers
             /\ conditions' = conditions
             /\ tokens' = tokens]_vars

\* a second applyToken with a redeemed token has just been refused
C7_Witness ==
    /\ last.op = "applyToken"
    /\ last.result = "Token already redeemed"
    /\ \E t \in 1..Len(tokens) : tokens[t].redeemedAt # NoTime

\* C8: applyToken is all-or-nothing.  Where only applyToken writes KeyUser and
\* SigningCondition rows, every such row then belongs to a redemption that
\* completed: some redeemed token is linked to the row's KeyUser.
C8_AllOrNothing ==
    /\ \A id \in 1..Len(keyUsers) :
          \E t \in 1..Len(tokens) :
              tokens[t].redeemedAt # NoTime /\ tokens[t].keyUserId = id
    /\ \A i \in 1..Len(conditions) :
          \E t \in 1..Len(tokens) :
              /\ tokens[t].redeemedAt # NoTime
              /\ tokens[t].keyUserId = conditions[i].keyUserId

\* what a successful applyToken(r, tok) leaves behind
AppliedTokenState(r, tok) ==
    LET t == FindToken(tok)
        id == FindKeyUser(tokens[t].keyName, r)
        rules == RulesOf(tokens[t].policyId)
    IN /\ id # NoId
       /\ \E i \in 1..Len(conditions) :
             /\ conditions[i].keyUserId = id
             /\ conditions[i].method = "connect"
             /\ conditions[i].allowed
       /\ \A j \in 1..Len(rules) :
             \E i \in 1..Len(conditions) :
                 /\ conditions[i].keyUserId = id
                 /\ conditions[i].method = rules[j].method
                 /\ conditions[i].allowed
                 /\ conditions[i].kind =
                       (IF rules[j].kind \in {NULL, ""} THEN NULL ELSE rules[j].kind)
       /\ tokens[t].redeemedAt # NoTime
       /\ tokens[t].keyUserId = id

\* C9: a successful applyToken(R, tok) leaves a KeyUser (K, R) with an allow
\* row for connect and one allow row per policy rule (the rule's method, and
\* the rule's kind when it is a non-empty text), and the token redeemed and
\* linked to that KeyUser.
C9_ApplyTokenPostcondition ==
    [][\A r \in Pubkeys, tok \in TokenTexts :
          (validateToken(tok) = "ok" /\ ApplyToken(r, tok, 0))
          => AppliedTokenState(r, tok)']_vars

\* a token of a policy with a kinded and an unkinded rule has just been
\* redeemed
C9_Witness ==
    /\ last.op = "applyToken" /\ last.result = "ok" /\ last.subject # NoId
    /\ \E t \in 1..Len(tokens) :
          /\ tokens[t].keyUserId = last.subject
          /\ Len(RulesOf(tokens[t].policyId)) = 2
          /\ \E i \in 1..Len(conditions) :
                conditions[i].keyUserId = last.subject /\ conditions[i].kind = "1"

\* C5: a request on the admin plane whose sender is not a configured admin
\* and whose method is not create_account runs no command handler, changes
\* no store (ACL, policies, tokens, config, unlocked keys, ledger) and is
\* answered with the not-an-admin error, sent to the sender.
C5_NonAdminRequestsRefused ==
    [][\A s \in Senders :
          (s \notin {NpubDecode(n) : n \in AdminNpubs} /\ CommandFrom(s))
          => /\ UNCHANGED <<keyUsers, conditions, policies, policyRules, tokens,
                            hostVars>>
             /\ last'.op = "handleRequest"
             /\ last'.result = NotAdminError
             /\ last'.to = s]_vars

\* a non-admin's command has just been refused while there was a KeyUser to
\* revoke and a key to unlock
C5_Witness ==
    /\ last.op = "handleRequest"
    /\ last.result = NotAdminError
    /\ last.to = "R1"
    /\ Len(keyUsers) > 0
    /\ "k1" \in DOMAIN configKeys

\* C6: every key entry an operation (add, create_new_key, create_account) has
\* written to the config file holds the encrypted blob {iv, data} and no raw
\* private key.
C6_NoPlaintextKeyOnDisk ==
    \A name \in DOMAIN configKeys :
        /\ configKeys[name].key = NULL
        /\ configKeys[name].iv # NULL
        /\ configKeys[name].data # <<>>

\* C10: no row of the request ledger that is still pending (allowed not set)
\* is older than 60 s.
C10_NoPendingRowOutlivesExpiry ==
    \A i \in 1..Len(requests) :
        requests[i].allowed = NULL => now - requests[i].createdAt <= ExpiryMs

\* C11: on the direct-admin path a fanout no admin has answered stays pending
\* for the 10 s after it was sent and has resolved as timed out (undefined)
\* once that time is past; a timed-out fanout never settled before its 10 s.
C11_TimeoutAfterTenSeconds ==
    \A p \in perms :
        /\ p.state = "undefined" => p.settledAt >= p.sentAt + PermissionMs
        /\ p.answers = {} =>
              /\ now < p.sentAt + PermissionMs => p.state = "pending"
              /\ now > p.sentAt + PermissionMs => p.state = "undefined"

C11_Witness ==
    \E p \in perms :
        /\ p.answers = {}
        /\ p.state = "undefined"
        /\ p.settledAt = p.sentAt + PermissionMs
        /\ now > p.settledAt

\* C12: a requestAuthorization call that timed out with no admin answer and
\* one whose only admin answer was 'never' do not settle with the same result.
C12_TimeoutDiffersFromDenial ==
    \A a \in settled, b \in settled :
        (/\ a.flow = "admin"
         /\ b.flow = "admin"
         /\ a.answers = {}
         /\ b.answers = {"never"})
        => <<a.result, a.value>> # <<b.result, b.value>>

\* C13: once a request was approved by an admin's 'always', a permit check of
\* the same (keyName, remotePubkey, method, kind) is approved by the lookup:
\* it opens no ledger row and sends no acl request.
C13_AlwaysMakesNextRequestApproved ==
    [][\A p \in perms :
          (/\ p.state = "true"
           /\ Permit(p.keyName, p.remotePubkey, p.method, p.kind))
          => (/\ last'.op = "permit"
              /\ last'.result = "approved"
              /\ requests' = requests
              /\ perms' = perms)]_vars

\* C14: after an admin answered 'never' the pending request is rejected with
\* no wait for the timer and every lookup for the KeyUser returns deny.
C14_NeverInstallsDeny ==
    \A p \in perms :
        "never" \in p.answers /\ "always" \notin p.answers =>
            /\ \A m \in Methods, n \in Kinds :
                  checkIfPubkeyAllowed(p.keyName, p.remotePubkey, m, n) = "false"
            /\ p.state # "pending"
            /\ \E a \in settled : a.id = p.id /\ a.result = "rejected"

\* C15: an admin's answer that is neither 'always' nor 'never' settles the
\* pending request in the step that receives it, and that step writes no
\* KeyUser and no SigningCondition row.
C15_OtherAnswerSettlesOnce ==
    [][\A p \in perms :
          (/\ p.state = "pending"
           /\ \E q \in perms' : q.id = p.id /\ "once" \in q.answers \ p.answers)
          => (/\ keyUsers' = keyUsers
              /\ conditions' = conditions
              /\ \E a \in settled' : a.id = p.id)]_vars

\* the sign_event rows of a KeyUser, and the KeyUsers whose lookups rest on
\* one sign_event allow row alone: not revoked, no explicit reject
SignEventRows(id) ==
    {i \in 1..Len(conditions) :
        conditions[i].keyUserId = id /\ conditions[i].method = "sign_event"}

OnlyRowOf(id) == CHOOSE i \in SignEventRows(id) : TRUE

HasOneSignEventAllow(id) ==
    /\ Cardinality(SignEventRows(id)) = 1
    /\ conditions[OnlyRowOf(id)].allowed
    /\ conditions[OnlyRowOf(id)].kind # NULL
    /\ keyUsers[id].revokedAt = NoTime
    /\ ~HasExplicitReject(id)

\* C16: for a KeyUser whose only sign_event row is an allow row of scope s, a
\* sign_event lookup returns allow for an event whose kind as text is s and
\* for every kind when s is 'all', and unknown for every other kind.
C16_SignEventScopeMatch ==
    \A id \in 1..Len(keyUsers), n \in Kinds :
        HasOneSignEventAllow(id) =>
            checkIfPubkeyAllowed(keyUsers[id].keyName, keyUsers[id].userPubkey,
                                 "sign_event", n)
            = IF conditions[OnlyRowOf(id)].kind \in {KindText(n), "all"}
              THEN "true" ELSE "undefined"

C16_Witness ==
    /\ last.op = "lookup"
    /\ last.result = "undefined"
    /\ last.subject # NoId
    /\ HasOneSignEventAllow(last.subject)
    /\ conditions[OnlyRowOf(last.subject)].kind = KindText(1)

\* C17: a create_account request with a reserved username is answered with
\* an error and changes nothing: no ledger row, no ACL row, no identity-file
\* name, no config key entry, no unlocked key.
C17_ReservedUsernameRefused ==
    [][\A s \in Senders, u \in RESERVED_USERNAMES, d \in ConfigDomains \cup {NULL} :
          HandleRequest(s, "create_account", <<u, d>>)
          => (/\ last'.op = "create_account"
              /\ last'.result = "error"
              /\ UNCHANGED <<requests, perms, calls, keyUsers, conditions,
                             nip05Names, configKeys, unlocked, keyTable>>)]_vars

C17_Witness ==
    /\ last.op = "create_account"
    /\ last.result = "error"

\* the usernames that have an account: a name in the identity file, or a key
\* named username@domain in the config, the Key table or the unlocked table
AccountNames ==
    {n[1] : n \in nip05Names}
    \cup {u \in RESERVED_USERNAMES \cup {"bob"} :
             \E d \in ConfigDomains :
                 \/ Nip05(u, d) \in keyTable
                 \/ Nip05(u, d) \in DOMAIN configKeys
                 \/ Nip05(u, d) \in DOMAIN unlocked}

\* C18: no account exists under a reserved username, whether the username
\* came with the create_account request or from the registration form.
C18_NoReservedAccount == AccountNames \cap RESERVED_USERNAMES = {}

\* C19: when create_account has completed for requester R and key K, R is
\* allowed connect, encrypt, decrypt and sign_event of every kind on K, and no
\* other pubkey has a KeyUser on K.
C19_CreatorGetsRights ==
    (last.op = "create_account" /\ last.result = "ok") =>
        /\ \A m \in {"connect", "encrypt", "decrypt"} :
              checkIfPubkeyAllowed(last.key, last.to, m, NoKind) = "true"
        /\ \A n \in Kinds :
              checkIfPubkeyAllowed(last.key, last.to, "sign_event", n) = "true"
        /\ \A i \in 1..Len(keyUsers) :
              keyUsers[i].keyName = last.key => keyUsers[i].userPubkey = last.to

C19_Witness ==
    /\ last.op = "create_account"
    /\ last.result = "ok"
    /\ last.key \in keyTable
    /\ FindKeyUser(last.key, last.to) # NoId

\* C20: on the web approval path a suspended request settles at most once,
\* resolved when the poll saw the row with allowed = true and rejected when
\* it saw allowed = false; a call that saw false is never resolved.
C20_WebPathSettlesByRow ==
    /\ \A a \in settled :
          a.flow = "url" =>
              /\ a.observed = "true" => a.result = "resolved"
              /\ a.observed = "false" => a.result = "rejected"
              /\ a.observed \in {"true", "false"}
    /\ \A a \in settled, b \in settled : a.id = b.id => a = b
    /\ \A c \in calls : \A a \in settled : a.id # c.id

C20_Witness ==
    /\ \E a \in settled :
          a.flow = "url" /\ a.observed = "false" /\ a.result = "rejected"
    /\ \E a \in settled :
          a.flow = "url" /\ a.observed = "true" /\ a.result = "resolved"

\* C21: on the web approval path a suspended request whose ledger row has
\* passed its 60 s expiry without an answer is settled in the end: its
\* promise does not stay pending for ever.
C21_ExpiredRowResolves ==
    \A id \in 1..MaxRequests :
        (/\ id <= Len(requests)
         /\ requests[id].allowed = NULL
         /\ now >= requests[id].createdAt + ExpiryMs
         /\ \A t \in timers : t.id # id
         /\ \E c \in calls : c.id = id /\ c.flow = "url")
        ~> (\E a \in settled : a.id = id)

\* when the monitor last heard from itself: the last inbound self-ping, or
\* its start
LastHeard ==
    IF monitor.lastPing # NoTime THEN monitor.lastPing ELSE monitor.startedAt

C23_HandlersNeverAbort == exitCode = NoExit

\* C24: a ledger row is settled at most once: a web handler called for a row
\* whose allowed is already set leaves the row as it is and writes no KeyUser
\* and no SigningCondition row.
C24_SettledRowsStay ==
    [][\A id \in 1..Len(requests) :
          (/\ requests[id].allowed # NULL
           /\ \/ \E valid \in BOOLEAN : ProcessRequestWebHandler(id, valid)
              \/ \E u \in {"bob", "admin"}, ok \in BOOLEAN :
                    ProcessRegistrationWebHandler(id, u, "example.com", ok))
          => UNCHANGED <<requests, keyUsers, conditions>>]_vars

\* C25: decryptNsec of what encryptNsec(nsec, passphrase) returned gives
\* nsec back under the same passphrase, and fails under every other
\* passphrase.
C25_EncryptDecryptRoundTrip ==
    last.op = "decryptNsec" =>
        /\ last.with = last.passphrase => last.result = last.nsec
        /\ last.with # last.passphrase => last.result = BadDecrypt

\* C26: with no baseUrl, a create_account request whose acl request an admin
\* answered with 'always' has its account once requestAuthorization has
\* resolved: the key in the config, the Key table and the unlocked table,
\* the name in the identity file, and the requester allowed to connect.
C26_AdminApprovedAccountCreated ==
    \A a \in settled :
        (/\ a.flow = "admin"
         /\ a.result = "resolved"
         /\ "always" \in a.answers
         /\ requests[a.id].method = "create_account")
        => /\ requests[a.id].keyName \in keyTable
           /\ requests[a.id].keyName \in DOMAIN configKeys
           /\ requests[a.id].keyName \in DOMAIN unlocked
           /\ <<requests[a.id].params[1], requests[a.id].params[2]>> \in nip05Names
           /\ checkIfPubkeyAllowed(requests[a.id].keyName,
                                   requests[a.id].remotePubkey,
                                   "connect", NoKind) = "true"

\* C27: a config key entry, an identity-file name, an unlocked-table entry
\* or a Key row appears only in the step in which the authorization of a
\* create_account request resolves as approved, and it is that request's
\* account; no step of a denied, timed-out or pending request creates one.
C27_CreationGatedByAuthorization ==
    [][(\/ configKeys' # configKeys
        \/ nip05Names' # nip05Names
        \/ unlocked' # unlocked
        \/ keyTable' # keyTable)
       => \E a \in settled' \ settled :
             /\ a.result = "resolved"
             /\ a.observed = "true"
             /\ requests[a.id].method = "create_account"
             /\ requests[a.id].allowed = "true"
             /\ keyTable' \ keyTable
                   \subseteq {Nip05(requests[a.id].params[1], requests[a.id].params[2])}
             /\ nip05Names' \ nip05Names
                   \subseteq {<<requests[a.id].params[1], requests[a.id].params[2]>>}]_vars

\* one create_account request was approved and has its account
C27_Witness ==
    \E a \in settled :
        /\ a.result = "resolved"
        /\ requests[a.id].method = "create_account"
        /\ Nip05(requests[a.id].params[1], requests[a.id].params[2])
              \in keyTable \cap DOMAIN configKeys \cap DOMAIN unlocked
        /\ <<requests[a.id].params[1], requests[a.id].params[2]>> \in nip05Names

\* C28: the first decisive answer of an admin fixes the outcome of the
\* pending request: a fanout that has settled keeps its outcome whatever
\* answer or timer comes later, and a fanout an admin has answered 'never'
\* is not approved by a later answer of another admin.
C28_FirstResponseWins ==
    [][\A p \in perms : \A q \in perms' :
          q.id = p.id =>
              /\ p.state # "pending" => q.state = p.state
              /\ ("never" \in p.answers /\ "always" \notin p.answers)
                    => q.state # "true"]_vars

\* C29: of the applyToken calls that run at once with one token at most one
\* returns with success, and at most one KeyUser gets the rows of the
\* token's policy.
C29_OneRedemptionUnderInterleaving ==
    \A tok \in TokenTexts :
        /\ Cardinality({a \in applying : a.token = tok /\ Returned(a)}) <= 1
        /\ Cardinality({a.id : a \in {b \in applying : b.token = tok /\ b.pc > 3}}) <= 1

\* what is wrong with a token, as the errors that name it
TokenFaults(tok) ==
    IF tok = "" THEN {"Invalid token"}
    ELSE IF FindToken(tok) = NoId THEN {"Token not found"}
    ELSE LET t == tokens[FindToken(tok)]
         IN (IF t.redeemedAt # NoTime THEN {"Token already redeemed"} ELSE {})
            \cup (IF t.policyId = NoId \/ t.policyId > Len(policies)
                  THEN {"Policy not found"} ELSE {})
            \cup (IF t.expiresAt # NoTime /\ t.expiresAt < now
                  THEN {"Token expired"} ELSE {})

\* C30: applyToken with a token that is empty, unknown, already redeemed,
\* without a policy or past its expiresAt fails with an error that names
\* what is wrong with the token, and leaves the KeyUser, SigningCondition
\* and Token tables as they were.
C30_InvalidTokenRefused ==
    [][\A r \in Pubkeys, tok \in TokenTexts \cup {""} :
          (TokenFaults(tok) # {} /\ \E f \in 0..5 : ApplyToken(r, tok, f))
          => /\ last'.op = "applyToken"
             /\ last'.result \in TokenFaults(tok)
             /\ UNCHANGED <<keyUsers, conditions, tokens>>]_vars

\* an applyToken with a token past its expiresAt has just been refused
C30_Witness ==
    /\ last.op = "applyToken"
    /\ last.result = "Token expired"
    /\ \E t \in 1..Len(tokens) :
          /\ tokens[t].expiresAt # NoTime
          /\ tokens[t].expiresAt < now
          /\ tokens[t].redeemedAt = NoTime

\* the rows of conditions that hold the grant of (method, scope) to a KeyUser
GrantRowsOf(keyUserId, method, scope) ==
    {i \in 1..Len(conditions) : conditions[i] = GrantRow(keyUserId, method, scope)}

\* C31: granting the same (keyName, remotePubkey, method, scope) more than
\* once leaves the store as one grant leaves it: one KeyUser for
\* (keyName, remotePubkey) and one SigningCondition row for
\* (keyUserId, method, scope).
C31_DuplicateGrantsIdempotent ==
    \A g \in granted :
        ~GrantKindIsNumber(g.scope) =>
            /\ Cardinality({i \in 1..Len(keyUsers) :
                               /\ keyUsers[i].keyName = g.keyName
                               /\ keyUsers[i].userPubkey = g.remotePubkey}) = 1
            /\ Cardinality(GrantRowsOf(FindKeyUser(g.keyName, g.remotePubkey),
                                       g.method, g.scope)) = 1

\* q is a request identical to p that was pending when p was answered
TwinOf(p, q) ==
    /\ q.id # p.id
    /\ q.keyName = p.keyName /\ q.remotePubkey = p.remotePubkey
    /\ q.method = p.method /\ q.kind = p.kind
    /\ q.sentAt <= p.settledAt
    /\ q.state = "pending" \/ q.settledAt > p.settledAt

\* C32: of two identical requests pending at the same time, when an admin
\* answers always to one, the other ends approved too: it does not end
\* timed out.
C32_TwinRequestApproved ==
    \A p \in perms, q \in perms :
        (/\ p.state = "true"
         /\ TwinOf(p, q)
         /\ checkIfPubkeyAllowed(p.keyName, p.remotePubkey, p.method, p.kind) = "true")
        => q.state # "undefined"

\* C33: the writers of the config file do not lose each other's updates:
\* when all of them have completed, the file holds the key entry every one
\* of them has written.
C33_NoLostConfigUpdate ==
    (\A w \in writers : w.done)
    => \A w \in writers :
          /\ w.name \in DOMAIN configKeys
          /\ configKeys[w.name] = w.entry

\* C34: the unlocked-key table changes only in the unlock_key and
\* create_new_key handlers; every other operation leaves it as it was.
C34_UnlockedFrame ==
    [][unlocked' # unlocked => last'.op \in {"unlock_key", "create_new_key"}]_vars

\* the ledger row id is approved and the lookup allows what it asked for
ApprovedAndAllowed(id) ==
    LET r == requests[id]
    IN /\ r.allowed = "true"
       /\ \A k \in Kinds :
             checkIfPubkeyAllowed(r.keyName, r.remotePubkey, r.method, k) = "true"
       /\ r.method = "connect" =>
             \A k \in Kinds :
                checkIfPubkeyAllowed(r.keyName, r.remotePubkey, "sign_event", k) = "true"

\* the KeyUser of the row's client, if there is one, is neither revoked nor
\* rejected
ClientInGoodStanding(id) ==
    LET ku == FindKeyUser(requests[id].keyName, requests[id].remotePubkey)
    IN ku # NoId => (keyUsers[ku].revokedAt = NoTime /\ ~HasExplicitReject(ku))

\* C35 as stated: after the web approver has approved a pending ledger row
\* for method m on key K from R, the row has allowed = true and the lookup
\* allows (K, R, m); for connect it also allows sign_event of every kind.
C35_WebApprovalGrants ==
    [][\A id \in 1..Len(requests) :
          (/\ requests[id].allowed = NULL
           /\ requests[id].keyName # NULL
           /\ ProcessRequestWebHandler(id, TRUE))
          => ApprovedAndAllowed(id)']_vars

\* C35: after the web approver has approved a pending ledger row for method
\* m on key K from R, the row has allowed = true, and where R's KeyUser for
\* K is neither revoked nor explicitly rejected the lookup allows (K, R, m)
\* and, for connect, sign_event of every kind.
C35_WebApprovalGrantsInGoodStanding ==
    [][\A id \in 1..Len(requests) :
          (/\ requests[id].allowed = NULL
           /\ requests[id].keyName # NULL
           /\ ProcessRequestWebHandler(id, TRUE))
          => /\ requests'[id].allowed = "true"
             /\ ClientInGoodStanding(id) => ApprovedAndAllowed(id)']_vars

\* a connect row has just been approved on the site for a client in good
\* standing, and the lookup allows the client's sign_event
C35_Witness ==
    /\ last = Did("processRequestWebHandler", "ok")
    /\ \E id \in 1..Len(requests) :
          /\ requests[id].method = "connect"
          /\ ClientInGoodStanding(id)
          /\ ApprovedAndAllowed(id)

\* C36: create_new_policy either stores the policy with every rule of the
\* request and replies ok, or stores no policy row and no rule row and
\* replies with an error; a rule may come without a kind.
C36_PolicyAllOrNothing ==
    [][\A rules \in PolicyRequests :
          CreateNewPolicy(rules)
          => \/ /\ last'.result = "ok"
                /\ Len(policies') = Len(policies) + 1
                /\ Len(policyRules') = Len(policyRules) + Len(rules)
             \/ /\ last'.result # "ok"
                /\ UNCHANGED <<policies, policyRules>>]_vars

\* C37: an always answer that arrives after its request was resolved by the
\* 10 s timer still installs the grant: the lookup approves the client's next
\* identical request.
C37_LateAlwaysStillGrants ==
    \A p \in perms :
        (p.state = "undefined" /\ "always" \in p.answers)
        => checkIfPubkeyAllowed(p.keyName, p.remotePubkey, p.method, p.kind) = "true"

\* the credentials are those of the account the row's key is named after
OwnerCredentials(id, jwt, password) ==
    LET owner == SplitKeyName(requests[id].keyName)
    IN /\ owner \in webUsers
       /\ jwt = UserPubkey(owner) \/ password = UserPassword(owner)

\* C38: a request on the key of username@domain is approved on the site only
\* by somebody who holds that account's cookie or password: no other
\* registered user's cookie or password settles it as allowed or installs a
\* grant on the key.
C38_OnlyOwnerApproves ==
    (/\ last.op = "processRequestWebHandler"
     /\ last.result = "ok"
     /\ SplitKeyName(requests[last.subject].keyName) \in webUsers)
    => OwnerCredentials(last.subject, last.jwt, last.password)

\* the request carries no cookie of a registered user, and the account the
\* key is named after is unknown or its password is not the one given
AuthenticationFails(id, jwt, password) ==
    LET owner == SplitKeyName(requests[id].keyName)
    IN /\ jwt = NULL \/ \A u \in webUsers : UserPubkey(u) # jwt
       /\ owner \notin webUsers \/ password # UserPassword(owner)

\* C39: when the approver's authentication fails (no valid cookie, and the
\* user unknown or the password wrong) processRequestWebHandler answers 401
\* with an error, the ledger row stays as it was (pending) and no KeyUser and
\* no SigningCondition row is written.
C39_FailedAuthenticationChangesNothing ==
    [][(/\ last'.op = "processRequestWebHandler"
        /\ ProcessRequestWebHandlerBy(last'.subject, last'.jwt, last'.password)
        /\ requests[last'.subject].keyName # NULL
        /\ AuthenticationFails(last'.subject, last'.jwt, last'.password))
       => /\ last'.result = "401"
          /\ last'.error \in {"Invalid keyName", "No user record found",
                              "Invalid password"}
          /\ UNCHANGED <<requests, keyUsers, conditions>>]_vars

\* a wrong password has just been refused for a row that is still pending
C39_Witness ==
    /\ last.op = "processRequestWebHandler"
    /\ last.result = "401"
    /\ last.error = "Invalid password"
    /\ requests[last.subject].allowed = NULL
    /\ conditions = <<>>

\* C40: the wait of processRegistrationWebHandler for the Key row of the
\* account ends in every execution: a handler that has marked its row
\* allowed and polls the Key table goes on to its reply.
C40_RegistrationWaitEnds ==
    \A id \in 1..MaxAccounts :
        (\E g \in regs : g.id = id) ~> (\A g \in regs : g.id # id)

==========================================================================
